---- MODULE Spec2Model ----
(***************************************************************************)
(* Connection lifecycle engine of geofront: registries and counters        *)
(* (state.rs), the control surface (ffi.rs), the engine task               *)
(* (connection.rs) and the route / MOTD rendezvous with the embedder.      *)
(*                                                                         *)
(* Tasks run on a multi-threaded executor.  Every step below is one        *)
(* critical section (one mutex acquisition, or one atomic) or one          *)
(* resumption of a task from an await point.  handle.abort() stops a task  *)
(* that is suspended at an await point; a task that is running             *)
(* synchronous code keeps running until it next suspends.                  *)
(***************************************************************************)
EXTENDS Integers, Sequences, FiniteSets, TLC

\* ---------------------------------------------------------------- bounds
MaxConn == 2
MaxListeners == 1
\* clients that connect while the route rendezvous is explored
MaxLogins == 1

ConnIds == 1..MaxConn
ListenerIds == 1..MaxListeners

\* the forwarding loop, scaled down: the read buffers (4096 bytes in the
\* code), the chunk of one write (1024), the bytes a peer sends in all, and
\* the width of the byte counters (AtomicU64) and of a rate (u32) as the
\* number of their values
BufSize == 3
ChunkSize == 2
MaxStream == 3
CounterModulus == 4
U32Modulus == 4

\* ------------------------------------------------------- program constants
PROXY_OK == 0
PROXY_ERR_INTERNAL == 0 - 1
PROXY_ERR_BAD_PARAM == 0 - 2
PROXY_ERR_NOT_FOUND == 0 - 3
Codes == {PROXY_OK, PROXY_ERR_INTERNAL, PROXY_ERR_BAD_PARAM, PROXY_ERR_NOT_FOUND}

\* Option::None for the optional strings of a decision
None == "<none>"

MsgInternalRoutingError == "Internal routing error."
MsgNoRouter == "No router configured"
MsgInvalidJson == "Invalid JSON from router"
MsgInvalidMotdJson == "Invalid JSON from MOTD callback"
MsgDialFailed == "Could not connect to the destination server."
MotdConnectionError == "Geofront Proxy - Connection Error"
MotdNoCallback == "Geofront Proxy - No MOTD callback configured"
MotdDefault == "Geofront Proxy"

\* RouteDecision (types.rs): presence of the optional fields; proxy_protocol
\* 0 stands for None.  proxy_url is what the proxy text is to Url::parse: a
\* socks5 URL, a URL of another scheme ("other"), or no URL ("unparseable");
\* "" when the field is absent or empty.
RouteDecision(disc, remote, proxy, pp, rewrite) ==
    [disconnect |-> disc, remote_host |-> remote, proxy |-> proxy,
     proxy_url |-> IF proxy THEN "socks5" ELSE "",
     proxy_protocol |-> pp, rewrite_host |-> rewrite]

DefaultRouteDecision == RouteDecision(None, FALSE, FALSE, 0, FALSE)

\* The decision_json argument of the embedder: a text that parses to a
\* decision, a text that does not parse, or a null pointer.
Json(d) == [null |-> FALSE, parses |-> TRUE, value |-> d]
BadJson == [null |-> FALSE, parses |-> FALSE, value |-> DefaultRouteDecision]
NullJson == [null |-> TRUE, parses |-> FALSE, value |-> DefaultRouteDecision]
RouteJsons ==
    { Json(RouteDecision(None, TRUE, FALSE, 0, FALSE)),
      Json(RouteDecision(None, TRUE, FALSE, 1, TRUE)),
      Json(RouteDecision("Banned.", TRUE, TRUE, 2, TRUE)),
      BadJson,
      NullJson }

\* MotdDecision (types.rs): the description, the optional disconnect and the
\* optional cache directive (a set with at most one CacheConfig).
MotdDecision(desc, disc) ==
    [description |-> desc, disconnect |-> disc, cache |-> {}]

DefaultMotdDecision == MotdDecision(None, None)
BadMotdJson == [null |-> FALSE, parses |-> FALSE, value |-> DefaultMotdDecision]
NullMotdJson == [null |-> TRUE, parses |-> FALSE, value |-> DefaultMotdDecision]
MotdJsons ==
    { Json(MotdDecision("A Minecraft Server", None)),
      Json(MotdDecision(None, "Maintenance")),
      BadMotdJson,
      NullMotdJson }

\* A parse whose fallback is the default decision, with no disconnect.
ParseRouteDecision_default(json) ==
    IF json.parses THEN json.value ELSE DefaultRouteDecision

\* serde_json::from_str(..) with the fallback of proxy_submit_routing_decision
ParseRouteDecision(json) ==
    IF json.parses
      THEN json.value
      ELSE [DefaultRouteDecision EXCEPT !.disconnect = MsgInvalidJson]

ParseMotdDecision(json) ==
    IF json.parses
      THEN json.value
      ELSE [DefaultMotdDecision EXCEPT !.disconnect = MsgInvalidMotdJson]

\* ------------------------------------------------------------------ state
VARIABLES
    \* state.rs globals
    CONN_COUNTER, LISTENER_COUNTER, TOTAL_CONN, ACTIVE_CONN,
    listeners,          \* LISTENER_STATE.listeners: ids with a task handle
    connections,        \* CONN_MANAGER.connections: ids with a task handle
    CONN_METRICS,       \* ids with a metrics entry
    RATE_LIMITERS,      \* ids with a limiter pair
    PENDING_ROUTES,     \* ids whose oneshot sender is stored
    PENDING_MOTDS,
    ROUTE_REQUEST_QUEUE, MOTD_REQUEST_QUEUE,
    ROUTER_CALLBACK, MOTD_CALLBACK,      \* TRUE when a callback is registered
    FFI_ROUTER_LOCK, FFI_MOTD_LOCK,      \* 0 when free, else the holder
    \* listener tasks
    lpc,                \* listener id -> position of the listener task
    lconn,              \* listener id -> connection id its accept body handles
    lcancel,            \* listeners aborted while running synchronous code
    \* engine tasks
    pc,                 \* connection id -> position of handle_conn
    cancel,             \* tasks aborted while running synchronous code
    routeRx, motdRx,    \* receiver half of the oneshot: state and value
    local,              \* per task: decision taken, pending disconnect text
    \* the outside world
    client,             \* what each client has received
    backend,            \* what each backend has received
    routerCalls,        \* connection ids whose route request reached the router callback
    \* control surface
    ctl,                \* position of the embedder thread inside an operation
    \* bookkeeping for the properties
    decrements,         \* connection id -> number of ACTIVE_CONN decrements
    polled,             \* connection ids of the requests poll has returned
    kicked,             \* connection ids disconnect or kick_all has removed
    cached,             \* the last MOTD answer that carried a cache directive
    told,               \* connection id -> the peer ips its oracle requests carried
    \* rate limits, byte counters and the forwarding loop
    limits,             \* RATE_LIMITERS: id -> the (send, receive) limiter pair
    metrics,            \* ConnMetrics: id -> bytes_sent, bytes_recv
    TOTAL_BYTES_SENT, TOTAL_BYTES_RECV,
    copy,               \* id -> the locals of copy_bidirectional_with_metrics
    sock,               \* id -> the client socket (a) and the backend socket (b)
    snapshot,           \* the MetricsSnapshot proxy_get_metrics is building
    \* options, clock, cache and the packet codec
    OPTIONS,            \* OPTIONS.proxy_protocol_in
    now,                \* Instant::now()
    cache,              \* ROUTER_MOTD_CACHE.cache: the entries, each with its key
    got,                \* the last cache operation and what it returned
    getting,            \* the get() that has let go of an expired entry
    lastSet,            \* per key: the most recent set, for the properties
    calc                \* the last codec function applied: input and output

regs == <<CONN_COUNTER, LISTENER_COUNTER, TOTAL_CONN, ACTIVE_CONN, listeners,
          connections, CONN_METRICS, RATE_LIMITERS>>
rdv == <<PENDING_ROUTES, PENDING_MOTDS, ROUTE_REQUEST_QUEUE, MOTD_REQUEST_QUEUE,
         ROUTER_CALLBACK, MOTD_CALLBACK, FFI_ROUTER_LOCK, FFI_MOTD_LOCK>>
ltask == <<lpc, lconn, lcancel>>
etask == <<pc, cancel, routeRx, motdRx, local>>
world == <<client, backend, routerCalls>>
ctlv == <<ctl>>
hist == <<decrements, polled, kicked>>
cachev == <<now, cache, got, getting, lastSet>>
lib == <<cachev, calc>>
fwd == <<limits, metrics, TOTAL_BYTES_SENT, TOTAL_BYTES_RECV, copy, sock, snapshot>>
aux == <<lib, OPTIONS, cached, told, fwd>>

vars == <<regs, rdv, ltask, etask, world, ctlv, hist, aux>>

NoRouteRx == [st |-> "none", val |-> DefaultRouteDecision]
NoMotdRx == [st |-> "none", val |-> DefaultMotdDecision]
\* result: how get_route_info ended as handle_conn matched it: "none" (not
\* yet), "timeout" (Err), "reject" (a decision with disconnect), "route"
\* options: the clone of OPTIONS handle_conn works with; first: what the
\* PROXY stage found at the start of the stream
\* header_result: what HeaderResult::parse said; peer_addr_override:
\* Option<SocketAddr> as a set with at most one address; consumed: the bytes
\* read from the stream before the handshake is parsed
\* hs, username: how parse_handshake and parse_login_start ended ("ok",
\* "err", "panic") and the next_state of the handshake
NoLocal == [route |-> DefaultRouteDecision, motd |-> DefaultMotdDecision,
            result |-> "none", msg |-> None, options |-> "None",
            first |-> None, header_result |-> "none",
            peer_addr_override |-> {}, consumed |-> 0,
            hs |-> [st |-> "none", next_state |-> 0], username |-> "none"]
NoClient == [disconnect |-> None, status |-> None, shutdown |-> FALSE]
\* source: the source address of the PROXY header written to the backend;
\* via: how the backend was dialed ("direct", "socks5")
NoBackend == [dialed |-> FALSE, written |-> <<>>, source |-> {}, via |-> "none"]

\* Positions of handle_conn at which the task is suspended in an await.
AwaitPcs == {"proxy_protocol",
             "handshake", "login_start", "route_lock", "route_wait",
             "write_disconnect", "dial", "write_proxy_header",
             "write_handshake", "write_login", "forward",
             "status_request", "motd_lock", "motd_wait", "send_status", "ping",
             "select", "shutdown", "limit", "write"}
\* Positions inside synchronous code.
RunPcs == {"route_request", "route_timeout", "motd_request", "motd_timeout",
           "cleanup1", "cleanup2", "cleanup3", "cleanup4",
           "copy_limiters", "count", "total"}
\* "none": id not allocated or task not spawned; "done": returned;
\* "aborted": future dropped by abort(); "panicked": ended by a panic.
EndPcs == {"none", "done", "aborted", "panicked"}

\* OPTIONS (state.rs): GeofrontOptions::default(); the cache is empty; no
\* codec function has been applied.
NoGot == [op |-> "none"]
NoGetting == [key |-> None, overtaken |-> FALSE]
NoCalc == [op |-> "none"]
\* until: the instant up to which the answer may be served from the cache;
\* next: the id the next accepted connection gets
NoCached == [until |-> 0, next |-> 0]

\* Quota::per_second(avg).allow_burst(burst)
Quota(avg, burst) == [avg |-> avg, burst |-> burst]
U32Max == U32Modulus - 1
\* the limiter of the accept body: Quota::per_second(u32::MAX)
Unlimited == Quota(U32Max, U32Max)
NoLimits == [send |-> Unlimited, recv |-> Unlimited]
NoBytes == [bytes_sent |-> 0, bytes_recv |-> 0]
\* dir: the branch of the select whose handler runs; buf: the bytes of the
\* last read (a_buf or b_buf up to n)
NoCopy == [dir |-> "a", buf |-> <<>>, offset |-> 0, remaining |-> 0,
           a_closed |-> FALSE, b_closed |-> FALSE,
           send_limiter |-> Unlimited, recv_limiter |-> Unlimited]
\* one socket as the engine sees it.  rd: the bytes readable; eof: the peer
\* has closed its sending side; sent: the bytes the peer has sent; taken: the
\* bytes the loop has read; wr: the bytes the loop has written; acked: the
\* bytes of the writes that returned Ok; shutdowns: the calls of shutdown()
NoSocket == [rd |-> <<>>, eof |-> FALSE, sent |-> 0, taken |-> <<>>,
             wr |-> <<>>, acked |-> 0, shutdowns |-> 0]
NoSock == [a |-> NoSocket, b |-> NoSocket]
\* st: how far proxy_get_metrics has got; todo: the entries of CONN_METRICS
\* the iteration has not visited; cur: the ConnMetricsSnapshot being built
\* (a set with at most one element); connections: the ones collected
NoSnapshot == [st |-> "none", todo |-> {}, cur |-> {}, connections |-> {},
               total_conn |-> 0, active_conn |-> 0,
               total_bytes_sent |-> 0, total_bytes_recv |-> 0]
\* proxy_get_metrics holds the CONN_METRICS lock from its first statement to
\* its return
MetricsLocked == ctl = "get_metrics"

\* The value of limits and metrics for an id outside its table is the value its
\* entry is inserted with (unlimited limiters, zero counters).
InitAux ==
    /\ limits = [c \in ConnIds |-> NoLimits]
    /\ metrics = [c \in ConnIds |-> NoBytes]
    /\ TOTAL_BYTES_SENT = 0
    /\ TOTAL_BYTES_RECV = 0
    /\ copy = [c \in ConnIds |-> NoCopy]
    /\ sock = [c \in ConnIds |-> NoSock]
    /\ snapshot = NoSnapshot
    /\ OPTIONS = "None"
    /\ cached = NoCached
    /\ told = [c \in ConnIds |-> {}]
    /\ now = 0
    /\ cache = {}
    /\ got = NoGot
    /\ getting = NoGetting
    /\ lastSet = {}
    /\ calc = NoCalc

Init ==
    /\ CONN_COUNTER = 1
    /\ LISTENER_COUNTER = 1
    /\ TOTAL_CONN = 0
    /\ ACTIVE_CONN = 0
    /\ listeners = {}
    /\ connections = {}
    /\ CONN_METRICS = {}
    /\ RATE_LIMITERS = {}
    /\ PENDING_ROUTES = {}
    /\ PENDING_MOTDS = {}
    /\ ROUTE_REQUEST_QUEUE = <<>>
    /\ MOTD_REQUEST_QUEUE = <<>>
    /\ ROUTER_CALLBACK = FALSE
    /\ MOTD_CALLBACK = FALSE
    /\ FFI_ROUTER_LOCK = 0
    /\ FFI_MOTD_LOCK = 0
    /\ lpc = [l \in ListenerIds |-> "none"]
    /\ lconn = [l \in ListenerIds |-> 0]
    /\ lcancel = {}
    /\ pc = [c \in ConnIds |-> "none"]
    /\ cancel = {}
    /\ routeRx = [c \in ConnIds |-> NoRouteRx]
    /\ motdRx = [c \in ConnIds |-> NoMotdRx]
    /\ local = [c \in ConnIds |-> NoLocal]
    /\ client = [c \in ConnIds |-> NoClient]
    /\ backend = [c \in ConnIds |-> NoBackend]
    /\ routerCalls = {}
    /\ ctl = "idle"
    /\ decrements = [c \in ConnIds |-> 0]
    /\ polled = <<>>
    /\ kicked = {}
    /\ InitAux

\* ACTIVE_CONN is an AtomicU64.  The model keeps the integer n of increments
\* minus decrements; the stored value is n mod 2^64, so the counter has
\* wrapped below zero exactly when n is negative.
ActiveConnWrapped == ACTIVE_CONN < 0

\* JoinHandle::abort() on an engine task: a task suspended in an await is
\* dropped at once, which drops its locals (the FFI lock guard and the oneshot
\* receiver); a task running synchronous code is marked and is dropped when it
\* next suspends.
Suspended(c) == pc[c] \in AwaitPcs

DropRx(rx, none) == IF rx.st = "none" THEN rx ELSE [none EXCEPT !.st = "closed"]

\* The task's locals are gone; how get_route_info ended stays on record.
Dropped(l) == [NoLocal EXCEPT !.result = l.result]

DropFutures(D) ==
    /\ pc' = [c \in ConnIds |-> IF c \in D THEN "aborted" ELSE pc[c]]
    /\ routeRx' = [c \in ConnIds |->
                     IF c \in D THEN DropRx(routeRx[c], NoRouteRx) ELSE routeRx[c]]
    /\ motdRx' = [c \in ConnIds |->
                     IF c \in D THEN DropRx(motdRx[c], NoMotdRx) ELSE motdRx[c]]
    /\ local' = [c \in ConnIds |-> IF c \in D THEN Dropped(local[c]) ELSE local[c]]
    /\ client' = [c \in ConnIds |-> IF c \in D THEN NoClient ELSE client[c]]
    /\ backend' = [c \in ConnIds |-> IF c \in D THEN NoBackend ELSE backend[c]]
    /\ FFI_ROUTER_LOCK' = IF FFI_ROUTER_LOCK \in D THEN 0 ELSE FFI_ROUTER_LOCK
    /\ FFI_MOTD_LOCK' = IF FFI_MOTD_LOCK \in D THEN 0 ELSE FFI_MOTD_LOCK

AbortTasks(S) ==
    /\ DropFutures({c \in S : Suspended(c)})
    /\ cancel' = cancel \cup {c \in S : pc[c] \in RunPcs}

\* The runtime drops a task that was aborted while running once it suspends.
TaskCancelled(c) ==
    /\ c \in cancel
    /\ Suspended(c)
    /\ DropFutures({c})
    /\ cancel' = cancel \ {c}
    /\ UNCHANGED <<aux, regs, PENDING_ROUTES, PENDING_MOTDS, ROUTE_REQUEST_QUEUE,
                   MOTD_REQUEST_QUEUE, ROUTER_CALLBACK, MOTD_CALLBACK,
                   ltask, routerCalls, ctlv, hist>>

\* abort() on listener tasks: same rule; the accept body is synchronous.
LSuspended(l) == lpc[l] \in {"bind", "accept"}
LRunning(l) == lpc[l] \in {"insert_metrics", "insert_limiters", "spawn", "insert_handle"}

AbortListeners(S) ==
    /\ lpc' = [l \in ListenerIds |-> IF l \in S /\ LSuspended(l) THEN "aborted" ELSE lpc[l]]
    /\ lcancel' = lcancel \cup {l \in S : LRunning(l)}
    /\ UNCHANGED lconn

\* ------------------------------------------------------------ listener task
\* ffi.rs proxy_start_listener: the spawned task, bind
bind(l) ==
    /\ lpc[l] = "bind"
    /\ \E ok \in BOOLEAN : lpc' = [lpc EXCEPT ![l] = IF ok THEN "accept" ELSE "failed"]
    /\ UNCHANGED <<aux, regs, rdv, lconn, lcancel, etask, world, ctlv, hist>>

\* listener.accept() returned Ok: the three counters
accept(l) ==
    /\ lpc[l] = "accept"
    /\ CONN_COUNTER <= MaxConn
    /\ lconn' = [lconn EXCEPT ![l] = CONN_COUNTER]
    /\ CONN_COUNTER' = CONN_COUNTER + 1
    /\ TOTAL_CONN' = TOTAL_CONN + 1
    /\ ACTIVE_CONN' = ACTIVE_CONN + 1
    /\ lpc' = [lpc EXCEPT ![l] = "insert_metrics"]
    /\ lcancel' = lcancel \ {l}
    /\ UNCHANGED <<aux, LISTENER_COUNTER, listeners, connections, CONN_METRICS,
                   RATE_LIMITERS, rdv, etask, world, ctlv, hist>>

\* listener.accept() returned Err: break
accept_error(l) ==
    /\ lpc[l] = "accept"
    /\ lpc' = [lpc EXCEPT ![l] = "failed"]
    /\ lcancel' = lcancel \ {l}
    /\ UNCHANGED <<aux, regs, rdv, lconn, etask, world, ctlv, hist>>

\* the aborted accept loop is dropped when it suspends in accept().await
listener_cancelled(l) ==
    /\ lpc[l] = "accept"
    /\ l \in lcancel
    /\ lpc' = [lpc EXCEPT ![l] = "aborted"]
    /\ lcancel' = lcancel \ {l}
    /\ UNCHANGED <<aux, regs, rdv, lconn, etask, world, ctlv, hist>>

insert_metrics(l) ==
    /\ lpc[l] = "insert_metrics"
    /\ ~MetricsLocked
    /\ CONN_METRICS' = CONN_METRICS \cup {lconn[l]}
    /\ lpc' = [lpc EXCEPT ![l] = "insert_limiters"]
    /\ UNCHANGED <<aux, CONN_COUNTER, LISTENER_COUNTER, TOTAL_CONN, ACTIVE_CONN,
                   listeners, connections, RATE_LIMITERS, rdv, lconn, lcancel,
                   etask, world, ctlv, hist>>

insert_limiters(l) ==
    /\ lpc[l] = "insert_limiters"
    /\ RATE_LIMITERS' = RATE_LIMITERS \cup {lconn[l]}
    /\ lpc' = [lpc EXCEPT ![l] = "spawn"]
    /\ UNCHANGED <<aux, CONN_COUNTER, LISTENER_COUNTER, TOTAL_CONN, ACTIVE_CONN,
                   listeners, connections, CONN_METRICS, rdv, lconn, lcancel,
                   etask, world, ctlv, hist>>

\* tokio::spawn(handle_conn(conn_id, inb))
\* and the first statements of handle_conn: the clone of OPTIONS and the test
\* of options.proxy_protocol_in
spawn(l) ==
    /\ lpc[l] = "spawn"
    /\ pc' = [pc EXCEPT ![lconn[l]] =
                IF OPTIONS = "None" THEN "handshake" ELSE "proxy_protocol"]
    /\ local' = [local EXCEPT ![lconn[l]].options = OPTIONS]
    /\ lpc' = [lpc EXCEPT ![l] = "insert_handle"]
    /\ UNCHANGED <<aux, regs, rdv, lconn, lcancel, cancel, routeRx, motdRx,
                   world, ctlv, hist>>

\* CONN_MANAGER.lock().unwrap().insert(conn_id, h)
insert_handle(l) ==
    /\ lpc[l] = "insert_handle"
    /\ connections' = connections \cup {lconn[l]}
    /\ lpc' = [lpc EXCEPT ![l] = "accept"]
    /\ UNCHANGED <<aux, CONN_COUNTER, LISTENER_COUNTER, TOTAL_CONN, ACTIVE_CONN,
                   listeners, CONN_METRICS, RATE_LIMITERS, rdv, lconn, lcancel,
                   etask, world, ctlv, hist>>

\* ----------------------------------------------------------- control surface

\* lib.rs proxy_register_router
proxy_register_router ==
    /\ ctl = "idle"
    /\ ROUTER_CALLBACK' = TRUE
    /\ UNCHANGED <<aux, regs, PENDING_ROUTES, PENDING_MOTDS, ROUTE_REQUEST_QUEUE,
                   MOTD_REQUEST_QUEUE, MOTD_CALLBACK, FFI_ROUTER_LOCK,
                   FFI_MOTD_LOCK, ltask, etask, world, ctl, hist>>

\* ffi.rs proxy_set_options: a null pointer or a text that does not parse is
\* PROXY_ERR_BAD_PARAM; else OPTIONS is replaced (proxyProtocolIn defaults to
\* None)
OptionsJsons ==
    { [null |-> TRUE, parses |-> FALSE, value |-> "None"],
      [null |-> FALSE, parses |-> FALSE, value |-> "None"],
      Json("None"), Json("Optional"), Json("Strict") }
proxy_set_options(options_json, r) ==
    /\ ctl = "idle"
    /\ IF options_json.null \/ ~options_json.parses
         THEN /\ r = PROXY_ERR_BAD_PARAM
              /\ UNCHANGED OPTIONS
         ELSE /\ r = PROXY_OK
              /\ OPTIONS' = options_json.value
    /\ UNCHANGED <<lib, cached, told, fwd, regs, rdv, ltask, etask, world, ctlv, hist>>

\* registration of MOTD_CALLBACK, the counterpart of proxy_register_router
proxy_register_motd_callback ==
    /\ ctl = "idle"
    /\ MOTD_CALLBACK' = TRUE
    /\ UNCHANGED <<aux, regs, PENDING_ROUTES, PENDING_MOTDS, ROUTE_REQUEST_QUEUE,
                   MOTD_REQUEST_QUEUE, ROUTER_CALLBACK, FFI_ROUTER_LOCK,
                   FFI_MOTD_LOCK, ltask, etask, world, ctl, hist>>

proxy_start_listener ==
    /\ ctl = "idle"
    /\ LISTENER_COUNTER <= MaxListeners
    /\ LISTENER_COUNTER' = LISTENER_COUNTER + 1
    /\ lpc' = [lpc EXCEPT ![LISTENER_COUNTER] = "bind"]
    /\ listeners' = listeners \cup {LISTENER_COUNTER}
    /\ UNCHANGED <<aux, CONN_COUNTER, TOTAL_CONN, ACTIVE_CONN, connections,
                   CONN_METRICS, RATE_LIMITERS, rdv, lconn, lcancel, etask,
                   world, ctl, hist>>

proxy_stop_listener(l, r) ==
    /\ ctl = "idle"
    /\ IF l \in listeners
         THEN /\ r = PROXY_OK
              /\ listeners' = listeners \ {l}
              /\ AbortListeners({l})
         ELSE /\ r = PROXY_ERR_NOT_FOUND
              /\ UNCHANGED <<listeners, ltask>>
    /\ UNCHANGED <<aux, CONN_COUNTER, LISTENER_COUNTER, TOTAL_CONN, ACTIVE_CONN,
                   connections, CONN_METRICS, RATE_LIMITERS, rdv, etask, world,
                   ctl, hist>>

\* A disconnect that leaves the metrics entry in CONN_METRICS.
proxy_disconnect_keeps_metrics(id, r) ==
    /\ ctl = "idle"
    /\ IF id \in connections
         THEN /\ r = PROXY_OK
              /\ connections' = connections \ {id}
              /\ AbortTasks({id})
              /\ RATE_LIMITERS' = RATE_LIMITERS \ {id}
              /\ ACTIVE_CONN' = ACTIVE_CONN - 1
              /\ decrements' = [decrements EXCEPT ![id] = @ + 1]
              /\ kicked' = kicked \cup {id}
         ELSE /\ r = PROXY_ERR_NOT_FOUND
              /\ UNCHANGED <<connections, RATE_LIMITERS,
                             ACTIVE_CONN, decrements, kicked, etask, client,
                             backend, FFI_ROUTER_LOCK, FFI_MOTD_LOCK>>
    /\ UNCHANGED <<aux, CONN_COUNTER, LISTENER_COUNTER, TOTAL_CONN, listeners,
                   CONN_METRICS, PENDING_ROUTES, PENDING_MOTDS,
                   ROUTE_REQUEST_QUEUE, MOTD_REQUEST_QUEUE, ROUTER_CALLBACK,
                   MOTD_CALLBACK, ltask, routerCalls, ctl, polled>>

\* The CONN_MANAGER guard of the `if let` lives to the end of the body, and the
\* body only removes entries of conn_id: one step.
proxy_disconnect(id, r) ==
    /\ ctl = "idle"
    /\ IF id \in connections
         THEN /\ r = PROXY_OK
              /\ connections' = connections \ {id}
              /\ AbortTasks({id})
              /\ RATE_LIMITERS' = RATE_LIMITERS \ {id}
              /\ CONN_METRICS' = CONN_METRICS \ {id}
              /\ ACTIVE_CONN' = ACTIVE_CONN - 1
              /\ decrements' = [decrements EXCEPT ![id] = @ + 1]
              /\ kicked' = kicked \cup {id}
         ELSE /\ r = PROXY_ERR_NOT_FOUND
              /\ UNCHANGED <<connections, RATE_LIMITERS, CONN_METRICS,
                             ACTIVE_CONN, decrements, kicked, etask, client,
                             backend,
                             FFI_ROUTER_LOCK, FFI_MOTD_LOCK>>
    /\ UNCHANGED <<aux, CONN_COUNTER, LISTENER_COUNTER, TOTAL_CONN, listeners,
                   PENDING_ROUTES, PENDING_MOTDS, ROUTE_REQUEST_QUEUE,
                   MOTD_REQUEST_QUEUE, ROUTER_CALLBACK, MOTD_CALLBACK,
                   ltask, routerCalls, ctl, polled>>

\* x as u32
as_u32(x) == x % U32Modulus
\* NonZeroU32::new(x as u32).unwrap_or(default)
nonzero_or(x, default) == IF as_u32(x) = 0 THEN default ELSE as_u32(x)
\* the limiter pair proxy_set_rate_limit builds from its four arguments
new_limiters(send_avg, send_burst, recv_avg, recv_burst) ==
    LET sa == nonzero_or(send_avg, U32Max)
        ra == nonzero_or(recv_avg, U32Max)
    IN  [send |-> Quota(sa, nonzero_or(send_burst, sa)),
         recv |-> Quota(ra, nonzero_or(recv_burst, ra))]

\* A set_rate_limit that replaces the send limiter only.
proxy_set_rate_limit_send_only(conn_id, args, r) ==
    /\ ctl = "idle"
    /\ IF conn_id \in RATE_LIMITERS
         THEN /\ r = PROXY_OK
              /\ limits' = [limits EXCEPT ![conn_id].send =
                    new_limiters(args[1], args[2], args[3], args[4]).send]
         ELSE /\ r = PROXY_ERR_NOT_FOUND
              /\ UNCHANGED limits
    /\ UNCHANGED <<lib, OPTIONS, cached, told, metrics, TOTAL_BYTES_SENT,
                   TOTAL_BYTES_RECV, copy, sock, snapshot, regs, rdv, ltask,
                   etask, world, ctlv, hist>>

\* proxy_set_rate_limit: the RATE_LIMITERS lock is held for the whole body;
\* args are send_avg, send_burst, recv_avg, recv_burst
proxy_set_rate_limit(conn_id, args, r) ==
    /\ ctl = "idle"
    /\ IF conn_id \in RATE_LIMITERS
         THEN /\ r = PROXY_OK
              /\ limits' = [limits EXCEPT ![conn_id] =
                    new_limiters(args[1], args[2], args[3], args[4])]
         ELSE /\ r = PROXY_ERR_NOT_FOUND
              /\ UNCHANGED limits
    /\ UNCHANGED <<lib, OPTIONS, cached, told, metrics, TOTAL_BYTES_SENT,
                   TOTAL_BYTES_RECV, copy, sock, snapshot, regs, rdv, ltask,
                   etask, world, ctlv, hist>>

\* proxy_get_connection_metrics: a null pointer when the id has no metrics
\* entry, else the snapshot of its two counters; nothing is changed
proxy_get_connection_metrics(conn_id, null) ==
    /\ ctl = "idle"
    /\ null = (conn_id \notin CONN_METRICS)
    /\ UNCHANGED vars

\* All three table locks are held for the whole body.
proxy_kick_all(r) ==
    /\ ctl = "idle"
    /\ r = Cardinality(connections)
    /\ AbortTasks(connections)
    /\ RATE_LIMITERS' = RATE_LIMITERS \ connections
    /\ CONN_METRICS' = CONN_METRICS \ connections
    /\ ACTIVE_CONN' = ACTIVE_CONN - Cardinality(connections)
    /\ decrements' = [c \in ConnIds |->
                        IF c \in connections THEN decrements[c] + 1 ELSE decrements[c]]
    /\ kicked' = kicked \cup connections
    /\ connections' = {}
    /\ UNCHANGED <<aux, CONN_COUNTER, LISTENER_COUNTER, TOTAL_CONN, listeners,
                   PENDING_ROUTES, PENDING_MOTDS, ROUTE_REQUEST_QUEUE,
                   MOTD_REQUEST_QUEUE, ROUTER_CALLBACK, MOTD_CALLBACK,
                   ltask, routerCalls, ctl, polled>>

\* proxy_shutdown, first loop: drain and abort the listeners
proxy_shutdown_listeners ==
    /\ ctl = "idle"
    /\ AbortListeners(listeners)
    /\ listeners' = {}
    /\ ctl' = "shutdown_connections"
    /\ UNCHANGED <<aux, CONN_COUNTER, LISTENER_COUNTER, TOTAL_CONN, ACTIVE_CONN,
                   connections, CONN_METRICS, RATE_LIMITERS, rdv, etask, world,
                   hist>>

\* second loop: drain and abort the connection tasks
proxy_shutdown_connections ==
    /\ ctl = "shutdown_connections"
    /\ AbortTasks(connections)
    /\ connections' = {}
    /\ ctl' = "shutdown_metrics"
    /\ UNCHANGED <<aux, CONN_COUNTER, LISTENER_COUNTER, TOTAL_CONN, ACTIVE_CONN,
                   listeners, CONN_METRICS, RATE_LIMITERS, PENDING_ROUTES,
                   PENDING_MOTDS, ROUTE_REQUEST_QUEUE, MOTD_REQUEST_QUEUE,
                   ROUTER_CALLBACK, MOTD_CALLBACK, ltask, routerCalls, hist>>

\* CONN_METRICS.lock().unwrap().clear(); PROXY_OK
proxy_shutdown_metrics ==
    /\ ctl = "shutdown_metrics"
    /\ CONN_METRICS' = {}
    /\ ctl' = "idle"
    /\ UNCHANGED <<aux, CONN_COUNTER, LISTENER_COUNTER, TOTAL_CONN, ACTIVE_CONN,
                   listeners, connections, RATE_LIMITERS, rdv, ltask, etask,
                   world, hist>>

\* null check, parse, PENDING_ROUTES.remove(&conn_id), sender.send(decision):
\* the send fails when the receiver was dropped
proxy_submit_routing_decision(id, json, r) ==
    /\ ctl = "idle"
    /\ IF json.null
         THEN /\ r = PROXY_ERR_BAD_PARAM
              /\ UNCHANGED <<PENDING_ROUTES, routeRx>>
         ELSE IF id \in PENDING_ROUTES
         THEN /\ IF routeRx[id].st = "open"
                   THEN /\ r = PROXY_OK
                        /\ routeRx' = [routeRx EXCEPT ![id] =
                                 [st |-> "value", val |-> ParseRouteDecision(json)]]
                   ELSE /\ r = PROXY_ERR_INTERNAL
                        /\ UNCHANGED routeRx
              /\ PENDING_ROUTES' = PENDING_ROUTES \ {id}
         ELSE /\ r = PROXY_ERR_NOT_FOUND
              /\ UNCHANGED <<PENDING_ROUTES, routeRx>>
    /\ UNCHANGED <<aux, regs, PENDING_MOTDS, ROUTE_REQUEST_QUEUE, MOTD_REQUEST_QUEUE,
                   ROUTER_CALLBACK, MOTD_CALLBACK, FFI_ROUTER_LOCK,
                   FFI_MOTD_LOCK, ltask, pc, cancel, motdRx, local, world, ctl,
                   hist>>

proxy_submit_motd_decision(id, json, r) ==
    /\ ctl = "idle"
    /\ IF json.null
         THEN /\ r = PROXY_ERR_BAD_PARAM
              /\ UNCHANGED <<PENDING_MOTDS, motdRx>>
         ELSE IF id \in PENDING_MOTDS
         THEN /\ IF motdRx[id].st = "open"
                   THEN /\ r = PROXY_OK
                        /\ motdRx' = [motdRx EXCEPT ![id] =
                                 [st |-> "value", val |-> ParseMotdDecision(json)]]
                   ELSE /\ r = PROXY_ERR_INTERNAL
                        /\ UNCHANGED motdRx
              /\ PENDING_MOTDS' = PENDING_MOTDS \ {id}
         ELSE /\ r = PROXY_ERR_NOT_FOUND
              /\ UNCHANGED <<PENDING_MOTDS, motdRx>>
    /\ UNCHANGED <<aux, regs, PENDING_ROUTES, ROUTE_REQUEST_QUEUE, MOTD_REQUEST_QUEUE,
                   ROUTER_CALLBACK, MOTD_CALLBACK, FFI_ROUTER_LOCK,
                   FFI_MOTD_LOCK, ltask, pc, cancel, routeRx, local, world, ctl,
                   hist>>

\* queue.remove(0), or null (code 0) when the queue is empty; the code is the
\* connection id of the request returned
proxy_poll_route_request(r) ==
    /\ ctl = "idle"
    /\ IF ROUTE_REQUEST_QUEUE = <<>>
         THEN /\ r = 0
              /\ UNCHANGED <<ROUTE_REQUEST_QUEUE, polled>>
         ELSE /\ r = Head(ROUTE_REQUEST_QUEUE)
              /\ polled' = Append(polled, Head(ROUTE_REQUEST_QUEUE))
              /\ ROUTE_REQUEST_QUEUE' = Tail(ROUTE_REQUEST_QUEUE)
    /\ UNCHANGED <<aux, regs, PENDING_ROUTES, PENDING_MOTDS, MOTD_REQUEST_QUEUE,
                   ROUTER_CALLBACK, MOTD_CALLBACK, FFI_ROUTER_LOCK,
                   FFI_MOTD_LOCK, ltask, etask, world, ctl, decrements,
                   kicked>>

proxy_poll_motd_request(r) ==
    /\ ctl = "idle"
    /\ IF MOTD_REQUEST_QUEUE = <<>>
         THEN /\ r = 0
              /\ UNCHANGED MOTD_REQUEST_QUEUE
         ELSE /\ r = Head(MOTD_REQUEST_QUEUE)
              /\ MOTD_REQUEST_QUEUE' = Tail(MOTD_REQUEST_QUEUE)
    /\ UNCHANGED <<aux, regs, PENDING_ROUTES, PENDING_MOTDS, ROUTE_REQUEST_QUEUE,
                   ROUTER_CALLBACK, MOTD_CALLBACK, FFI_ROUTER_LOCK,
                   FFI_MOTD_LOCK, ltask, etask, world, ctl, hist>>

\* -------------------------------------------------------------- engine task
\* Every engine step leaves the registries' counters and the listener alone
\* unless it says otherwise.
Goto(c, to) == pc' = [pc EXCEPT ![c] = to]

\* SocketAddr
Addr(ip, port) == [ip |-> ip, port |-> port]
\* inbound.peer_addr(): the address the connection was accepted from
SocketPeerAddr == Addr("198.51.100.7", 40000)

\* The complete well-formed PROXY headers a stream starts with: version,
\* address family, source address and the length of the header in bytes (v1:
\* the line with its CR LF; v2: 16 bytes and the address block).
Header(version, addresses, source, len) ==
    [version |-> version, addresses |-> addresses, source |-> source,
     len |-> len]
Headers ==
    [v1_tcp4 |-> Header(1, "Tcp4", {Addr("192.0.2.1", 56324)}, 44),
     v1_tcp6 |-> Header(1, "Tcp6", {Addr("2001:db8::1", 56324)}, 48),
     v1_unknown |-> Header(1, "Unknown", {}, 15),
     v2_ipv4 |-> Header(2, "IPv4", {Addr("192.0.2.1", 56324)}, 28),
     v2_ipv6 |-> Header(2, "IPv6", {Addr("2001:db8::1", 56324)}, 52),
     v2_unix |-> Header(2, "Unix", {}, 232)]
\* What the stream of a client starts with: one of the headers, the
\* beginning of one, bytes that start like a header and do not parse, or no
\* header at all (the handshake comes first, or nothing).
FirstBytes == DOMAIN Headers \cup {"partial", "malformed", "omitted"}
\* ppp::HeaderResult::parse(&buf[..n]) on what peek delivered: of a complete
\* header only a part may have arrived; without a header the bytes at hand
\* are too few to tell, or they are not a header.
NoHeader == Header(0, "none", {}, 0)
HeaderResult(st, header) == [st |-> st, header |-> header]
HeaderResults(first) ==
    IF first \in DOMAIN Headers
      THEN {HeaderResult("ok", Headers[first]), HeaderResult("incomplete", NoHeader)}
    ELSE IF first = "partial" THEN {HeaderResult("incomplete", NoHeader)}
    ELSE IF first = "malformed" THEN {HeaderResult("error", NoHeader)}
    ELSE {HeaderResult("incomplete", NoHeader), HeaderResult("error", NoHeader)}

\* header_len: header.header.len() of a v1 header, header.len() of a v2 one
header_len(header) == header.len
\* the source address handle_conn takes from header.addresses: v1 Tcp4 and
\* Tcp6, v2 IPv4 and IPv6; none from the other address types
source_addr_of(header) ==
    IF \/ header.version = 1 /\ header.addresses \in {"Tcp4", "Tcp6"}
       \/ header.version = 2 /\ header.addresses \in {"IPv4", "IPv6"}
      THEN header.source
      ELSE {}

proxy_protocol_in_lenient(c, first) ==
    /\ pc[c] = "proxy_protocol"
    /\ Goto(c, "handshake")
    /\ local' = [local EXCEPT ![c].first = first]
    /\ UNCHANGED <<aux, regs, rdv, ltask, cancel, routeRx, motdRx, world, ctlv,
                   hist>>

\* connection.rs handle_conn, the PROXY stage: peek, parse, and on a complete
\* header read_exact of its length and the override of the peer address.  A
\* failed peek or read_exact, and in Strict mode everything but a complete
\* well-formed header, is cleanup_conn and return; else the handshake is
\* parsed next.
proxy_protocol_in(c, first) ==
    /\ pc[c] = "proxy_protocol"
    /\ \E peeked \in BOOLEAN, header_result \in HeaderResults(first),
          read \in BOOLEAN :
         IF ~peeked
           THEN /\ Goto(c, "cleanup1")
                /\ local' = [local EXCEPT ![c].first = first]
         ELSE IF header_result.st = "ok"
           THEN IF read
                  THEN /\ Goto(c, "handshake")
                       /\ local' = [local EXCEPT
                            ![c].first = first,
                            ![c].header_result = header_result.st,
                            ![c].consumed = header_len(header_result.header),
                            ![c].peer_addr_override =
                                source_addr_of(header_result.header)]
                  ELSE /\ Goto(c, "cleanup1")
                       /\ local' = [local EXCEPT
                            ![c].first = first,
                            ![c].header_result = header_result.st]
         ELSE /\ Goto(c, IF local[c].options = "Strict"
                           THEN "cleanup1" ELSE "handshake")
              /\ local' = [local EXCEPT
                   ![c].first = first,
                   ![c].header_result = header_result.st]
    /\ UNCHANGED <<aux, regs, rdv, ltask, cancel, routeRx, motdRx, world, ctlv,
                   hist>>

\* peer_ip: peer_addr_override.map(|addr| addr.ip()), else the ip of
\* inbound.peer_addr()
peer_ip(c) ==
    IF local[c].peer_addr_override = {}
      THEN SocketPeerAddr.ip
      ELSE (CHOOSE a \in local[c].peer_addr_override : TRUE).ip
\* source_addr: peer_addr_override.unwrap_or_else(|| inbound.peer_addr())
source_addr(c) ==
    IF local[c].peer_addr_override = {}
      THEN {SocketPeerAddr}
      ELSE local[c].peer_addr_override

\* connection.rs handle_conn: protocol::parse_handshake and the branch on
\* next_state
parse_handshake(c, outcome) ==
    /\ pc[c] = "handshake"
    /\ Goto(c, CASE outcome = "status" -> "status_request"
              [] outcome = "login" -> "login_start"
              [] OTHER -> "cleanup1")
    /\ UNCHANGED <<aux, regs, rdv, ltask, cancel, routeRx, motdRx, local, world,
                   ctlv, hist>>

parse_login_start(c) ==
    /\ pc[c] = "login_start"
    /\ \E ok \in BOOLEAN : Goto(c, IF ok THEN "route_lock" ELSE "cleanup1")
    /\ UNCHANGED <<aux, regs, rdv, ltask, cancel, routeRx, motdRx, local, world,
                   ctlv, hist>>

\* get_route_info: FFI_ROUTER_LOCK.lock().await, oneshot::channel(),
\* PENDING_ROUTES.insert(conn_id, tx)
get_route_info_lock(c) ==
    /\ pc[c] = "route_lock"
    /\ FFI_ROUTER_LOCK = 0
    /\ FFI_ROUTER_LOCK' = c
    /\ PENDING_ROUTES' = PENDING_ROUTES \cup {c}
    /\ routeRx' = [routeRx EXCEPT ![c] = [NoRouteRx EXCEPT !.st = "open"]]
    /\ Goto(c, "route_request")
    /\ UNCHANGED <<aux, regs, PENDING_MOTDS, ROUTE_REQUEST_QUEUE, MOTD_REQUEST_QUEUE,
                   ROUTER_CALLBACK, MOTD_CALLBACK, FFI_MOTD_LOCK, ltask, cancel,
                   motdRx, local, world, ctlv, hist>>

\* A request_route_info that only returns when no router is registered,
\* leaving the slot for the timeout.
request_route_info_returns(c) ==
    /\ pc[c] = "route_request"
    /\ IF ROUTER_CALLBACK
         THEN /\ routerCalls' = routerCalls \cup {c}
              /\ told' = [told EXCEPT ![c] = @ \cup {peer_ip(c)}]
         ELSE UNCHANGED <<routerCalls, told>>
    /\ Goto(c, "route_wait")
    /\ UNCHANGED <<lib, OPTIONS, cached, fwd, regs, rdv, ltask, cancel, routeRx,
                   motdRx, local, client, backend, ctlv, hist>>

\* request_route_info: call the router callback, or answer the slot at once
request_route_info(c) ==
    /\ pc[c] = "route_request"
    /\ IF ROUTER_CALLBACK
         THEN /\ routerCalls' = routerCalls \cup {c}
              /\ told' = [told EXCEPT ![c] = @ \cup {peer_ip(c)}]
              /\ UNCHANGED <<PENDING_ROUTES, routeRx>>
         ELSE /\ UNCHANGED <<routerCalls, told>>
              /\ PENDING_ROUTES' = PENDING_ROUTES \ {c}
              /\ routeRx' = IF c \in PENDING_ROUTES /\ routeRx[c].st = "open"
                              THEN [routeRx EXCEPT ![c] =
                                      [st |-> "value",
                                       val |-> [DefaultRouteDecision EXCEPT
                                                  !.disconnect = MsgNoRouter]]]
                              ELSE routeRx
    /\ Goto(c, "route_wait")
    /\ UNCHANGED <<lib, OPTIONS, cached, fwd, regs, PENDING_MOTDS, ROUTE_REQUEST_QUEUE, MOTD_REQUEST_QUEUE,
                   ROUTER_CALLBACK, MOTD_CALLBACK, FFI_ROUTER_LOCK,
                   FFI_MOTD_LOCK, ltask, cancel, motdRx, local, client, backend,
                   ctlv, hist>>

\* A handle_conn that honours the disconnect field only when the decision
\* names no backend.
route_decision_prefers_route(c) ==
    /\ pc[c] = "route_wait"
    /\ routeRx[c].st = "value"
    /\ FFI_ROUTER_LOCK' = 0
    /\ routeRx' = [routeRx EXCEPT ![c] = NoRouteRx]
    /\ IF routeRx[c].val.disconnect # None /\ ~routeRx[c].val.remote_host
         THEN /\ local' = [local EXCEPT ![c].result = "reject",
                                         ![c].msg = routeRx[c].val.disconnect]
              /\ Goto(c, "write_disconnect")
         ELSE /\ local' = [local EXCEPT ![c].result = "route",
                                         ![c].route = routeRx[c].val]
              /\ Goto(c, "dial")
    /\ UNCHANGED <<aux, regs, PENDING_ROUTES, PENDING_MOTDS, ROUTE_REQUEST_QUEUE,
                   MOTD_REQUEST_QUEUE, ROUTER_CALLBACK, MOTD_CALLBACK,
                   FFI_MOTD_LOCK, ltask, cancel, motdRx, world, ctlv, hist>>

\* timeout(10 s, rx) yields Ok(Ok(decision)); get_route_info returns and drops
\* the guard; handle_conn takes the custom reject branch or goes on to dial
route_decision(c) ==
    /\ pc[c] = "route_wait"
    /\ routeRx[c].st = "value"
    /\ FFI_ROUTER_LOCK' = 0
    /\ routeRx' = [routeRx EXCEPT ![c] = NoRouteRx]
    /\ IF routeRx[c].val.disconnect # None
         THEN /\ local' = [local EXCEPT ![c].result = "reject",
                                         ![c].msg = routeRx[c].val.disconnect]
              /\ Goto(c, "write_disconnect")
         ELSE /\ local' = [local EXCEPT ![c].result = "route",
                                         ![c].route = routeRx[c].val]
              /\ Goto(c, "dial")
    /\ UNCHANGED <<aux, regs, PENDING_ROUTES, PENDING_MOTDS, ROUTE_REQUEST_QUEUE,
                   MOTD_REQUEST_QUEUE, ROUTER_CALLBACK, MOTD_CALLBACK,
                   FFI_MOTD_LOCK, ltask, cancel, motdRx, world, ctlv, hist>>

\* timeout(10 s, rx) yields Err(Elapsed): the receiver is dropped with the
\* timeout future
route_timeout(c) ==
    /\ pc[c] = "route_wait"
    /\ routeRx[c].st = "open"
    /\ routeRx' = [routeRx EXCEPT ![c] = [NoRouteRx EXCEPT !.st = "closed"]]
    /\ Goto(c, "route_timeout")
    /\ UNCHANGED <<aux, regs, rdv, ltask, cancel, motdRx, local, world, ctlv, hist>>

\* A timeout branch that leaves the sender in PENDING_ROUTES.
route_timeout_keeps_slot(c) ==
    /\ pc[c] = "route_timeout"
    /\ FFI_ROUTER_LOCK' = 0
    /\ local' = [local EXCEPT ![c].result = "timeout",
                               ![c].msg = MsgInternalRoutingError]
    /\ Goto(c, "write_disconnect")
    /\ UNCHANGED <<aux, regs, PENDING_ROUTES, PENDING_MOTDS, ROUTE_REQUEST_QUEUE,
                   MOTD_REQUEST_QUEUE, ROUTER_CALLBACK, MOTD_CALLBACK,
                   FFI_MOTD_LOCK, ltask, cancel, routeRx, motdRx, world, ctlv,
                   hist>>

\* PENDING_ROUTES.remove(&conn_id); Err(()); handle_conn: "Internal routing
\* error."
route_timeout_remove(c) ==
    /\ pc[c] = "route_timeout"
    /\ PENDING_ROUTES' = PENDING_ROUTES \ {c}
    /\ FFI_ROUTER_LOCK' = 0
    /\ local' = [local EXCEPT ![c].result = "timeout",
                               ![c].msg = MsgInternalRoutingError]
    /\ Goto(c, "write_disconnect")
    /\ UNCHANGED <<aux, regs, PENDING_MOTDS, ROUTE_REQUEST_QUEUE, MOTD_REQUEST_QUEUE,
                   ROUTER_CALLBACK, MOTD_CALLBACK, FFI_MOTD_LOCK, ltask, cancel,
                   routeRx, motdRx, world, ctlv, hist>>

\* protocol.rs write_disconnect: write_all(packet)?, then shutdown; the caller
\* ignores the result and goes to cleanup_conn
write_disconnect(c) ==
    /\ pc[c] = "write_disconnect"
    /\ \E ok \in BOOLEAN :
         client' = IF ok
                     THEN [client EXCEPT ![c].disconnect = local[c].msg,
                                         ![c].shutdown = TRUE]
                     ELSE client
    /\ Goto(c, "cleanup1")
    /\ UNCHANGED <<aux, regs, rdv, ltask, cancel, routeRx, motdRx, local, backend,
                   routerCalls, ctlv, hist>>

\* if !proxy_url.is_empty() { Url::parse(proxy_url).expect("Invalid proxy
\* URL"): a text that is no URL panics the task, which unwinds without
\* cleanup_conn; scheme "socks5" -> Socks5Stream::connect; any other scheme,
\* or no proxy -> TcpStream::connect(&backend)
dial(c) ==
    /\ pc[c] = "dial"
    /\ IF local[c].route.proxy /\ local[c].route.proxy_url = "unparseable"
         THEN /\ Goto(c, "panicked")
              /\ local' = [local EXCEPT ![c] = Dropped(@)]
              /\ cancel' = cancel \ {c}
              /\ UNCHANGED backend
         ELSE /\ backend' = [backend EXCEPT
                               ![c].dialed = TRUE,
                               ![c].via = IF local[c].route.proxy_url = "socks5"
                                            THEN "socks5" ELSE "direct"]
              /\ \E ok \in BOOLEAN :
                   IF ok
                     THEN /\ Goto(c, IF local[c].route.proxy_protocol \in {1, 2}
                                       THEN "write_proxy_header"
                                       ELSE "write_handshake")
                          /\ local' = [local EXCEPT ![c].route = DefaultRouteDecision]
                     ELSE /\ Goto(c, "write_disconnect")
                          /\ local' = [local EXCEPT
                                         ![c].route = DefaultRouteDecision,
                                         ![c].msg = MsgDialFailed]
              /\ UNCHANGED cancel
    /\ UNCHANGED <<aux, regs, rdv, ltask, routeRx, motdRx, client,
                   routerCalls, ctlv, hist>>

\* outbound.write_all(..): on error cleanup_conn and return
WriteOutbound(c, from, what, to) ==
    /\ pc[c] = from
    /\ \E ok \in BOOLEAN :
         IF ok
           THEN /\ backend' = [backend EXCEPT ![c].written = Append(@, what)]
                /\ Goto(c, to)
           ELSE /\ UNCHANGED backend
                /\ Goto(c, "cleanup1")
    /\ UNCHANGED <<aux, regs, rdv, ltask, cancel, routeRx, motdRx, local, client,
                   routerCalls, ctlv, hist>>

write_proxy_header_socket_peer(c) ==
    /\ pc[c] = "write_proxy_header"
    /\ \E ok \in BOOLEAN :
         IF ok
           THEN /\ backend' = [backend EXCEPT
                                ![c].written = Append(@, "proxy_header"),
                                ![c].source = {SocketPeerAddr}]
                /\ Goto(c, "write_handshake")
           ELSE /\ UNCHANGED backend
                /\ Goto(c, "cleanup1")
    /\ UNCHANGED <<aux, regs, rdv, ltask, cancel, routeRx, motdRx, local, client,
                   routerCalls, ctlv, hist>>

\* the PROXY header built from (source_addr, destination_addr) and written
\* to the backend
write_proxy_header(c) ==
    /\ pc[c] = "write_proxy_header"
    /\ \E ok \in BOOLEAN :
         IF ok
           THEN /\ backend' = [backend EXCEPT
                                ![c].written = Append(@, "proxy_header"),
                                ![c].source = source_addr(c)]
                /\ Goto(c, "write_handshake")
           ELSE /\ UNCHANGED backend
                /\ Goto(c, "cleanup1")
    /\ UNCHANGED <<aux, regs, rdv, ltask, cancel, routeRx, motdRx, local, client,
                   routerCalls, ctlv, hist>>
write_handshake(c) == WriteOutbound(c, "write_handshake", "handshake", "write_login")

\* A handle_conn that logs a failed write of the login packet and goes on.
write_login_ignores_error(c) ==
    /\ pc[c] = "write_login"
    /\ \E ok \in BOOLEAN :
         backend' = IF ok
                      THEN [backend EXCEPT ![c].written = Append(@, "login_start")]
                      ELSE backend
    /\ Goto(c, "forward")
    /\ UNCHANGED <<aux, regs, rdv, ltask, cancel, routeRx, motdRx, local, client,
                   routerCalls, ctlv, hist>>

write_login(c) == WriteOutbound(c, "write_login", "login_start", "forward")

\* copy_bidirectional_with_metrics returns (both sides closed, or an error)
forward(c) ==
    /\ pc[c] = "forward"
    /\ Goto(c, "cleanup1")
    /\ UNCHANGED <<aux, regs, rdv, ltask, cancel, routeRx, motdRx, local, world,
                   ctlv, hist>>

\* cleanup_conn, one step per statement
cleanup_conn_manager(c) ==
    /\ pc[c] = "cleanup1"
    /\ connections' = connections \ {c}
    /\ Goto(c, "cleanup2")
    /\ UNCHANGED <<aux, CONN_COUNTER, LISTENER_COUNTER, TOTAL_CONN, ACTIVE_CONN,
                   listeners, CONN_METRICS, RATE_LIMITERS, rdv, ltask, cancel,
                   routeRx, motdRx, local, world, ctlv, hist>>

cleanup_rate_limiters(c) ==
    /\ pc[c] = "cleanup2"
    /\ RATE_LIMITERS' = RATE_LIMITERS \ {c}
    /\ Goto(c, "cleanup3")
    /\ UNCHANGED <<aux, CONN_COUNTER, LISTENER_COUNTER, TOTAL_CONN, ACTIVE_CONN,
                   listeners, connections, CONN_METRICS, rdv, ltask, cancel,
                   routeRx, motdRx, local, world, ctlv, hist>>

cleanup_conn_metrics(c) ==
    /\ pc[c] = "cleanup3"
    /\ ~MetricsLocked
    /\ CONN_METRICS' = CONN_METRICS \ {c}
    /\ Goto(c, "cleanup4")
    /\ UNCHANGED <<aux, CONN_COUNTER, LISTENER_COUNTER, TOTAL_CONN, ACTIVE_CONN,
                   listeners, connections, RATE_LIMITERS, rdv, ltask, cancel,
                   routeRx, motdRx, local, world, ctlv, hist>>

\* ACTIVE_CONN.fetch_sub(1); handle_conn returns
cleanup_active_conn(c) ==
    /\ pc[c] = "cleanup4"
    /\ ACTIVE_CONN' = ACTIVE_CONN - 1
    /\ decrements' = [decrements EXCEPT ![c] = @ + 1]
    /\ Goto(c, "done")
    /\ cancel' = cancel \ {c}
    /\ local' = [local EXCEPT ![c] = Dropped(@)]
    /\ client' = [client EXCEPT ![c] = NoClient]
    /\ backend' = [backend EXCEPT ![c] = NoBackend]
    /\ UNCHANGED <<aux, CONN_COUNTER, LISTENER_COUNTER, TOTAL_CONN, listeners,
                   connections, CONN_METRICS, RATE_LIMITERS, rdv, ltask,
                   routeRx, motdRx, routerCalls, ctlv, polled, kicked>>

\* handle_status_request: read the status request packet (id 0)
status_request(c) ==
    /\ pc[c] = "status_request"
    /\ \E ok \in BOOLEAN : Goto(c, IF ok THEN "motd_lock" ELSE "cleanup1")
    /\ UNCHANGED <<aux, regs, rdv, ltask, cancel, routeRx, motdRx, local, world,
                   ctlv, hist>>

\* get_motd_info: FFI_MOTD_LOCK.lock().await, oneshot::channel(),
\* PENDING_MOTDS.insert(conn_id, tx)
get_motd_info_lock(c) ==
    /\ pc[c] = "motd_lock"
    /\ FFI_MOTD_LOCK = 0
    /\ FFI_MOTD_LOCK' = c
    /\ PENDING_MOTDS' = PENDING_MOTDS \cup {c}
    /\ motdRx' = [motdRx EXCEPT ![c] = [NoMotdRx EXCEPT !.st = "open"]]
    /\ Goto(c, "motd_request")
    /\ UNCHANGED <<aux, regs, PENDING_ROUTES, ROUTE_REQUEST_QUEUE, MOTD_REQUEST_QUEUE,
                   ROUTER_CALLBACK, MOTD_CALLBACK, FFI_ROUTER_LOCK, ltask,
                   cancel, routeRx, local, world, ctlv, hist>>

\* request_motd_info: call the MOTD callback, or answer the slot at once with
\* the default MOTD
request_motd_info(c) ==
    /\ pc[c] = "motd_request"
    /\ IF MOTD_CALLBACK
         THEN /\ told' = [told EXCEPT ![c] = @ \cup {peer_ip(c)}]
              /\ UNCHANGED <<PENDING_MOTDS, motdRx>>
         ELSE /\ UNCHANGED told
              /\ PENDING_MOTDS' = PENDING_MOTDS \ {c}
              /\ motdRx' = IF c \in PENDING_MOTDS /\ motdRx[c].st = "open"
                             THEN [motdRx EXCEPT ![c] =
                                     [st |-> "value",
                                      val |-> MotdDecision(MotdNoCallback, None)]]
                             ELSE motdRx
    /\ Goto(c, "motd_wait")
    /\ UNCHANGED <<lib, OPTIONS, cached, fwd, regs, PENDING_ROUTES, ROUTE_REQUEST_QUEUE, MOTD_REQUEST_QUEUE,
                   ROUTER_CALLBACK, MOTD_CALLBACK, FFI_ROUTER_LOCK,
                   FFI_MOTD_LOCK, ltask, cancel, routeRx, local, world, ctlv,
                   hist>>

\* Ok(Ok(decision)): disconnect if the decision says so, else send the status.
\* Nothing is done with decision.cache; `cached` notes what it asked for.
motd_decision(c) ==
    /\ pc[c] = "motd_wait"
    /\ motdRx[c].st = "value"
    /\ FFI_MOTD_LOCK' = 0
    /\ motdRx' = [motdRx EXCEPT ![c] = NoMotdRx]
    /\ IF motdRx[c].val.disconnect # None
         THEN /\ local' = [local EXCEPT ![c].msg = motdRx[c].val.disconnect]
              /\ Goto(c, "write_disconnect")
         ELSE /\ local' = [local EXCEPT ![c].motd = motdRx[c].val]
              /\ Goto(c, "send_status")
    /\ cached' = IF motdRx[c].val.cache = {}
                   THEN cached
                   ELSE [until |-> now + (CHOOSE d \in motdRx[c].val.cache : TRUE).ttl,
                         next |-> CONN_COUNTER]
    /\ UNCHANGED <<lib, OPTIONS, told, fwd, regs, PENDING_ROUTES, PENDING_MOTDS, ROUTE_REQUEST_QUEUE,
                   MOTD_REQUEST_QUEUE, ROUTER_CALLBACK, MOTD_CALLBACK,
                   FFI_ROUTER_LOCK, ltask, cancel, routeRx, world, ctlv, hist>>

motd_timeout(c) ==
    /\ pc[c] = "motd_wait"
    /\ motdRx[c].st = "open"
    /\ motdRx' = [motdRx EXCEPT ![c] = [NoMotdRx EXCEPT !.st = "closed"]]
    /\ Goto(c, "motd_timeout")
    /\ UNCHANGED <<aux, regs, rdv, ltask, cancel, routeRx, local, world, ctlv, hist>>

\* PENDING_MOTDS.remove(&conn_id); Err(()); handle_status_request falls back
\* to the "Connection Error" MOTD
motd_timeout_remove(c) ==
    /\ pc[c] = "motd_timeout"
    /\ PENDING_MOTDS' = PENDING_MOTDS \ {c}
    /\ FFI_MOTD_LOCK' = 0
    /\ local' = [local EXCEPT ![c].motd = MotdDecision(MotdConnectionError, None)]
    /\ Goto(c, "send_status")
    /\ UNCHANGED <<aux, regs, PENDING_ROUTES, ROUTE_REQUEST_QUEUE, MOTD_REQUEST_QUEUE,
                   ROUTER_CALLBACK, MOTD_CALLBACK, FFI_ROUTER_LOCK, ltask,
                   cancel, routeRx, motdRx, world, ctlv, hist>>

\* send_status_response: description, or "Geofront Proxy" when absent
send_status(c) ==
    /\ pc[c] = "send_status"
    /\ \E ok \in BOOLEAN :
         IF ok
           THEN /\ client' = [client EXCEPT ![c].status =
                                IF local[c].motd.description = None
                                  THEN MotdDefault
                                  ELSE local[c].motd.description]
                /\ Goto(c, "ping")
           ELSE /\ UNCHANGED client
                /\ Goto(c, "cleanup1")
    /\ local' = [local EXCEPT ![c].motd = DefaultMotdDecision]
    /\ UNCHANGED <<aux, regs, rdv, ltask, cancel, routeRx, motdRx, backend,
                   routerCalls, ctlv, hist>>

\* optional ping / pong, then handle_status_request returns
ping(c) ==
    /\ pc[c] = "ping"
    /\ Goto(c, "cleanup1")
    /\ UNCHANGED <<aux, regs, rdv, ltask, cancel, routeRx, motdRx, local, world,
                   ctlv, hist>>

\* ------------------------------------------------------------ specification
\* What a client sends as its first packet: a status handshake, a login
\* handshake, or bytes that fail to parse (or an unknown next_state).
Handshakes == {"status", "login", "error"}

ListenerSteps ==
    \/ \E l \in ListenerIds : bind(l)
    \/ \E l \in ListenerIds : accept(l)
    \/ \E l \in ListenerIds : insert_metrics(l)
    \/ \E l \in ListenerIds : insert_limiters(l)
    \/ \E l \in ListenerIds : spawn(l)
    \/ \E l \in ListenerIds : insert_handle(l)

CleanupSteps ==
    \/ \E c \in ConnIds : cleanup_conn_manager(c)
    \/ \E c \in ConnIds : cleanup_rate_limiters(c)
    \/ \E c \in ConnIds : cleanup_conn_metrics(c)
    \/ \E c \in ConnIds : cleanup_active_conn(c)

\* The registries under accept, cleanup_conn, disconnect and kick_all, with
\* clients whose handshake fails to parse.
Next ==
    \/ ListenerSteps
    \/ \E l \in ListenerIds : accept_error(l)
    \/ \E l \in ListenerIds : listener_cancelled(l)
    \/ proxy_start_listener
    \/ \E l \in ListenerIds, r \in Codes : proxy_stop_listener(l, r)
    \/ \E id \in ConnIds, r \in Codes : proxy_disconnect(id, r)
    \/ \E r \in 0..MaxConn : proxy_kick_all(r)
    \/ \E id \in ConnIds, null \in BOOLEAN : proxy_get_connection_metrics(id, null)
    \/ \E c \in ConnIds : parse_handshake(c, "error")
    \/ CleanupSteps

Spec == Init /\ [][Next]_vars

\* The same, with proxy_shutdown.
NextShutdown ==
    \/ Next
    \/ proxy_shutdown_listeners
    \/ proxy_shutdown_connections
    \/ proxy_shutdown_metrics

SpecShutdown == Init /\ [][NextShutdown]_vars

\* The login path and the route rendezvous: one listener is bound and
\* accepting, clients send a login handshake or garbage, the embedder
\* registers the router, submits decisions, polls and disconnects.
InitRoute ==
    /\ CONN_COUNTER = 1
    /\ LISTENER_COUNTER = 2
    /\ TOTAL_CONN = 0
    /\ ACTIVE_CONN = 0
    /\ listeners = {1}
    /\ connections = {}
    /\ CONN_METRICS = {}
    /\ RATE_LIMITERS = {}
    /\ PENDING_ROUTES = {}
    /\ PENDING_MOTDS = {}
    /\ ROUTE_REQUEST_QUEUE = <<>>
    /\ MOTD_REQUEST_QUEUE = <<>>
    /\ ROUTER_CALLBACK = FALSE
    /\ MOTD_CALLBACK = FALSE
    /\ FFI_ROUTER_LOCK = 0
    /\ FFI_MOTD_LOCK = 0
    /\ lpc = [l \in ListenerIds |-> IF l = 1 THEN "accept" ELSE "none"]
    /\ lconn = [l \in ListenerIds |-> 0]
    /\ lcancel = {}
    /\ pc = [c \in ConnIds |-> "none"]
    /\ cancel = {}
    /\ routeRx = [c \in ConnIds |-> NoRouteRx]
    /\ motdRx = [c \in ConnIds |-> NoMotdRx]
    /\ local = [c \in ConnIds |-> NoLocal]
    /\ client = [c \in ConnIds |-> NoClient]
    /\ backend = [c \in ConnIds |-> NoBackend]
    /\ routerCalls = {}
    /\ ctl = "idle"
    /\ decrements = [c \in ConnIds |-> 0]
    /\ polled = <<>>
    /\ kicked = {}
    /\ InitAux

\* accept() for the clients of the route rendezvous
accept_login(l) == CONN_COUNTER <= MaxLogins /\ accept(l)

NextRoute ==
    \/ \E l \in ListenerIds : accept_login(l)
    \/ \E l \in ListenerIds : insert_metrics(l)
    \/ \E l \in ListenerIds : insert_limiters(l)
    \/ \E l \in ListenerIds : spawn(l)
    \/ \E l \in ListenerIds : insert_handle(l)
    \/ proxy_register_router
    \/ \E id \in ConnIds, r \in Codes : proxy_disconnect(id, r)
    \/ \E id \in ConnIds, json \in RouteJsons, r \in Codes :
         proxy_submit_routing_decision(id, json, r)
    \/ \E r \in 0..MaxConn : proxy_poll_route_request(r)
    \/ \E c \in ConnIds : TaskCancelled(c)
    \/ \E c \in ConnIds, h \in {"login", "error"} : parse_handshake(c, h)
    \/ \E c \in ConnIds : parse_login_start(c)
    \/ \E c \in ConnIds : get_route_info_lock(c)
    \/ \E c \in ConnIds : request_route_info(c)
    \/ \E c \in ConnIds : route_decision(c)
    \/ \E c \in ConnIds : route_timeout(c)
    \/ \E c \in ConnIds : route_timeout_remove(c)
    \/ \E c \in ConnIds : write_disconnect(c)
    \/ \E c \in ConnIds : dial(c)
    \/ \E c \in ConnIds : write_proxy_header(c)
    \/ \E c \in ConnIds : write_handshake(c)
    \/ \E c \in ConnIds : write_login(c)
    \/ \E c \in ConnIds : forward(c)
    \/ CleanupSteps

SpecRoute == InitRoute /\ [][NextRoute]_vars

\* ------------------------------------------------------------ packet codec
\* Bytes are the integers 0..255, a buffer or a stream is a sequence of bytes,
\* an i32 is an integer of -2^31 .. 2^31 - 1.

\* protocol.rs write_varint(buf, value): (value & !0x7F) == 0 holds for
\* 0..127; (value as u32) >> 7 is a logical shift, which for a negative i32
\* is 2^25 + floor(value / 128)
RECURSIVE protocol_write_varint(_, _)
protocol_write_varint(buf, value) ==
    IF value >= 0 /\ value <= 127
      THEN Append(buf, value)
      ELSE protocol_write_varint(
             Append(buf, (value % 128) + 128),
             IF value >= 0 THEN value \div 128 ELSE 33554432 + (value \div 128))

\* protocol.rs write_string(buf, s)
protocol_write_string(buf, s) == protocol_write_varint(buf, Len(s)) \o s

\* connection.rs write_varint(value): value >>= 7 on an i32 is an arithmetic
\* shift, floor(value / 128).  The loop ends when value is 0; when the shift
\* leaves a nonzero value unchanged (-1 >> 7 = -1) the loop pushes bytes for
\* ever: returns is FALSE and bytes is what one round of the loop pushed.
RECURSIVE connection_write_varint_loop(_, _)
connection_write_varint_loop(buf, value) ==
    LET shifted == value \div 128
        temp == IF shifted # 0 THEN (value % 128) + 128 ELSE value % 128
    IN  IF shifted = 0
          THEN [returns |-> TRUE, bytes |-> Append(buf, temp)]
          ELSE IF shifted = value
          THEN [returns |-> FALSE, bytes |-> Append(buf, temp)]
          ELSE connection_write_varint_loop(Append(buf, temp), shifted)

connection_write_varint(value) == connection_write_varint_loop(<<>>, value)

\* a Vec<u8> extended by the result of a call that may not return
Extend(data, r) == [returns |-> data.returns /\ r.returns,
                    bytes |-> data.bytes \o r.bytes]
Returned(bytes) == [returns |-> TRUE, bytes |-> bytes]

\* connection.rs write_string(s)
connection_write_string(s) == Extend(connection_write_varint(Len(s)), Returned(s))

\* port.to_be_bytes()
to_be_bytes(port) == <<port \div 256, port % 256>>

\* connection.rs create_handshake_packet(hs)
create_handshake_packet(hs) ==
    LET data == Extend(Extend(Extend(Extend(
                   connection_write_varint(0),
                   connection_write_varint(hs.protocol_version)),
                   connection_write_string(hs.host)),
                   Returned(to_be_bytes(hs.port))),
                   connection_write_varint(hs.next_state))
    IN  Extend(connection_write_varint(Len(data.bytes)), data)

\* connection.rs create_login_start_packet(username)
create_login_start_packet(username) ==
    LET data == Extend(connection_write_varint(0), connection_write_string(username))
    IN  Extend(connection_write_varint(Len(data.bytes)), data)

\* (value << (7 * num_read)) for a 7-bit value, wrapped to an i32: the bits
\* shifted past bit 31 are lost and bit 31 is the sign
ShiftLeft(value, num_read) ==
    IF num_read < 4
      THEN value * 2^(7 * num_read)
      ELSE IF value % 16 >= 8
             THEN ((value % 8) * 2^28 - 2^30) - 2^30
             ELSE (value % 8) * 2^28

ReadOk(value, rest) == [ok |-> TRUE, err |-> "none", value |-> value, rest |-> rest]
ReadErr(err) == [ok |-> FALSE, err |-> err, value |-> 0, rest |-> <<>>]

\* protocol.rs read_varint(stream).  result |= .. adds, as the bits set so far
\* lie below the shift.  A sixth byte is shifted by 35, which panics where
\* overflow checks are on and is masked to a shift by 3 otherwise; the result
\* is then dropped for the error.
RECURSIVE read_varint_loop(_, _, _)
read_varint_loop(stream, num_read, result) ==
    IF stream = <<>>
      THEN ReadErr("UnexpectedEof")
      ELSE IF num_read + 1 > 5
      THEN ReadErr("VarInt too big")
      ELSE LET byte == Head(stream)
               acc == result + ShiftLeft(byte % 128, num_read)
           IN  IF byte < 128
                 THEN ReadOk(acc, Tail(stream))
                 ELSE read_varint_loop(Tail(stream), num_read + 1, acc)

\* A reader that takes at most four bytes.
read_varint_four_bytes(stream) ==
    LET r == read_varint_loop(stream, 0, 0)
    IN  IF r.ok /\ Len(stream) - Len(r.rest) > 4 THEN ReadErr("VarInt too big") ELSE r

read_varint(stream) == read_varint_loop(stream, 0, 0)

\* String::from_utf8 for the bytes below 224: ASCII and two-byte sequences (a
\* lead byte 0xC2..0xDF and one continuation byte 0x80..0xBF)
from_utf8(buf) ==
    \A i \in 1..Len(buf) :
      \/ buf[i] < 128
      \/ buf[i] \in 194..223 /\ i < Len(buf) /\ buf[i + 1] \in 128..191
      \/ buf[i] \in 128..191 /\ i > 1 /\ buf[i - 1] \in 194..223

\* protocol.rs read_string(stream): a negative length is a huge usize
read_string(stream) ==
    LET len == read_varint(stream)
    IN  IF ~len.ok THEN len
        ELSE IF len.value < 0 \/ len.value > 262144
          THEN ReadErr("String length exceeds limit")
        ELSE IF Len(len.rest) < len.value THEN ReadErr("UnexpectedEof")
        ELSE IF ~from_utf8(SubSeq(len.rest, 1, len.value))
          THEN ReadErr("invalid utf-8")
        ELSE ReadOk(SubSeq(len.rest, 1, len.value),
                    SubSeq(len.rest, len.value + 1, Len(len.rest)))

\* HandshakeData (types.rs)
HandshakeData(protocol_version, host, port, next_state) ==
    [protocol_version |-> protocol_version, host |-> host, port |-> port,
     next_state |-> next_state]

\* protocol.rs parse_handshake(stream): the packet length is read and not used
protocol_parse_handshake(stream) ==
    LET packet_len == read_varint(stream)
        packet_id == read_varint(packet_len.rest)
        protocol_version == read_varint(packet_id.rest)
        host == read_string(protocol_version.rest)
        next_state == read_varint(SubSeq(host.rest, 3, Len(host.rest)))
    IN  IF ~packet_len.ok THEN packet_len
        ELSE IF ~packet_id.ok THEN packet_id
        ELSE IF packet_id.value # 0 THEN ReadErr("Invalid handshake packet ID")
        ELSE IF ~protocol_version.ok THEN protocol_version
        ELSE IF ~host.ok THEN host
        ELSE IF Len(host.rest) < 2 THEN ReadErr("UnexpectedEof")
        ELSE IF ~next_state.ok THEN next_state
        ELSE ReadOk(HandshakeData(protocol_version.value, host.value,
                                  host.rest[1] * 256 + host.rest[2],
                                  next_state.value),
                    next_state.rest)

\* protocol.rs write_disconnect(stream, msg): the bytes of the packet
disconnect_packet(msg) ==
    LET payload == protocol_write_string(protocol_write_varint(<<>>, 0), msg)
    IN  protocol_write_varint(<<>>, Len(payload)) \o payload

\* The values the codec is applied to.  VarInts: around every power of two,
\* so every encoded length 1..5 and every carry between bytes occurs, and the
\* negative i32 that a five-byte VarInt can carry.
VarintValues ==
    {2^k - 1 : k \in 0..30} \cup {2^k : k \in 0..30} \cup {2^k + 1 : k \in 0..29}
      \cup {(2^30 - 1) + 2^30}
NegativeValues == {0 - 1, 0 - 128, (0 - 2^30) - 2^30}
\* bytes that follow a VarInt in the stream
Tails == {<<>>, <<0>>, <<255, 1>>}

\* "Banned.", the empty message, a quote and a backslash, 200 times "a"
Messages ==
    { <<66, 97, 110, 110, 101, 100, 46>>, <<>>, <<34, 92>>,
      [i \in 1..200 |-> 97] }

\* "a", "b.c", an e with an acute accent, 130 times "h"
Hosts == { <<97>>, <<98, 46, 99>>, <<195, 169>>, [i \in 1..130 |-> 104] }
\* what a login handshake can carry: any i32 protocol version, any u16 port,
\* next_state 2
ClientHandshakes ==
    { HandshakeData(v, h, p, 2) :
        v \in {0, 47, 763, 0 - 1}, h \in Hosts, p \in {0, 25565, 65535} }
\* route_decision.rewrite_host: Option<String>
Some(x) == [some |-> TRUE, v |-> x]
Absent == [some |-> FALSE, v |-> <<>>]
RewriteHosts == {Absent} \cup {Some(h) : h \in Hosts}

NotLib == <<regs, rdv, ltask, etask, world, ctlv, hist, OPTIONS, cached, told, fwd>>

\* write a VarInt with one of the two writers, then read the bytes back with
\* more bytes behind them
varint_round_trip(writer, value, tail) ==
    /\ LET written == IF writer = "protocol"
                        THEN Returned(protocol_write_varint(<<>>, value))
                        ELSE connection_write_varint(value)
       IN  calc' = [op |-> "varint", writer |-> writer, value |-> value,
                    written |-> written, tail |-> tail,
                    read |-> read_varint(written.bytes \o tail)]
    /\ UNCHANGED <<NotLib, cachev>>

\* protocol.rs write_disconnect: stream.write_all(&packet).await? and then
\* stream.shutdown()
write_disconnect_packet(msg) ==
    /\ \E ok \in BOOLEAN :
         calc' = [op |-> "write_disconnect", msg |-> msg, ok |-> ok,
                  written |-> IF ok THEN disconnect_packet(msg) ELSE <<>>,
                  shutdown |-> ok]
    /\ UNCHANGED <<NotLib, cachev>>

\* connection.rs handle_conn: hs_for_rewrite = hs.clone(), the host replaced
\* when the decision has rewrite_host, create_handshake_packet(&hs_for_rewrite)
replay_handshake(hs, rewrite_host) ==
    /\ LET hs_for_rewrite == IF rewrite_host.some
                               THEN [hs EXCEPT !.host = rewrite_host.v]
                               ELSE hs
       IN  calc' = [op |-> "replay_handshake", hs |-> hs,
                    rewrite_host |-> rewrite_host,
                    handshake_packet |-> create_handshake_packet(hs_for_rewrite)]
    /\ UNCHANGED <<NotLib, cachev>>

NextCodec ==
    \/ \E w \in {"protocol", "connection"},
          v \in VarintValues \cup NegativeValues, t \in Tails :
         varint_round_trip(w, v, t)
    \/ \E m \in Messages : write_disconnect_packet(m)
    \/ \E hs \in ClientHandshakes, h \in RewriteHosts : replay_handshake(hs, h)

SpecCodec == Init /\ [][NextCodec]_vars

\* ------------------------------------------------------------------ cache
\* cache.rs RouterMotdCache.  The map is the set of its (key, entry) pairs;
\* Instant::now() is the clock `now`, which only moves forward, and a TTL is a
\* number of its units.
MaxTime == 1

CacheIps == {"1.2.3.4"}
\* host: Option<&str>
CacheHosts == {None, "default", "x.example"}
Granularities == {"Ip", "IpHost"}
\* host and granularity of the calls: the host plays no part at IP
\* granularity
CacheCalls ==
    {<<None, "Ip">>} \cup {<<host, "IpHost">> : host \in CacheHosts}
\* CacheConfig (types.rs): reject is an Option<bool>, reject_reason an
\* Option<String>
CacheConfig(granularity, ttl, reject, reject_reason) ==
    [granularity |-> granularity, ttl |-> ttl, reject |-> reject,
     reject_reason |-> reject_reason]
\* payload, ttl, reject, rejectReason of the calls of set()
CacheInputs ==
    { <<"v1", 1, "absent", None>>, <<"v1", 0, "absent", None>>,
      <<"v2", 2, "true", "Banned.">>, <<"v2", 1, "false", "Banned.">> }

generate_key_ignores_host(ip, host, granularity) ==
    IF granularity = "Ip" THEN "ip:" \o ip ELSE "ip:" \o ip \o ":host:default"
\* generate_key: format!("ip:{}", ip), format!("ip:{}:host:{}", ip,
\* host.unwrap_or("default"))
generate_key(ip, host, granularity) ==
    IF granularity = "Ip"
      THEN "ip:" \o ip
      ELSE "ip:" \o ip \o ":host:" \o (IF host = None THEN "default" ELSE host)

\* CacheEntry
CacheEntry(data, is_rejection, reject_reason, expires_at) ==
    [data |-> data, is_rejection |-> is_rejection,
     reject_reason |-> reject_reason, expires_at |-> expires_at]
NoEntry == CacheEntry(None, FALSE, None, 0)

unexpired_at_expiry(entry, t) == entry.expires_at >= t
\* entry_ref.expires_at > Instant::now()
unexpired(entry, t) == entry.expires_at > t

new_entry_drops_reject(data, cache_config, t) ==
    CacheEntry(data, FALSE, None, t + cache_config.ttl)
\* the entry set() builds: reject.unwrap_or(false), reject_reason.clone(),
\* Instant::now() + Duration::from_millis(ttl)
new_entry(data, cache_config, t) ==
    CacheEntry(data, cache_config.reject = "true", cache_config.reject_reason,
               t + cache_config.ttl)

\* DashMap::insert, DashMap::remove, DashMap::get
insert(map, key, entry) ==
    {e \in map : e.key # key} \cup {[key |-> key, entry |-> entry]}
remove(map, key) == {e \in map : e.key # key}
lookup(map, key) == {e \in map : e.key = key}

\* what lastSet remembers of a set(): its arguments and the time of the call
SetRecord(key, data, cache_config, t) ==
    [key |-> key, data |-> data, cache_config |-> cache_config, at |-> t]
NotCache == <<NotLib, calc>>

\* RouterMotdCache::set.  A get() that is about to remove the key has been
\* overtaken by this set.
set(ip, host, data, cache_config) ==
    LET key == generate_key(ip, host, cache_config.granularity)
    IN  /\ cache' = insert(cache, key, new_entry(data, cache_config, now))
        /\ lastSet' = remove(lastSet, key) \cup
                        {SetRecord(key, data, cache_config, now)}
        /\ getting' = IF getting.key = key
                        THEN [getting EXCEPT !.overtaken = TRUE] ELSE getting
        /\ got' = NoGot
        /\ UNCHANGED <<NotCache, now>>

\* what a get() returned: Some(entry) or None; removed when it took the
\* expired entry out
GetResult(key, found, entry, removed, overtaken) ==
    [op |-> "get", key |-> key, found |-> found, entry |-> entry,
     removed |-> removed, overtaken |-> overtaken]

\* RouterMotdCache::get up to drop(entry_ref): a clone of the entry while it
\* has not expired, None when there is no entry; on an expired entry the
\* reference is released and the remove is still to come.  Calls of get do
\* not overlap each other; set, clear and cleanup_expired do overlap a get.
get(ip, host, granularity) ==
    LET key == generate_key(ip, host, granularity)
        found == lookup(cache, key)
        live == {e \in found : unexpired(e.entry, now)}
    IN  /\ getting = NoGetting
        /\ IF live # {}
             THEN /\ got' = GetResult(key, TRUE, (CHOOSE e \in live : TRUE).entry,
                                      FALSE, FALSE)
                  /\ UNCHANGED getting
             ELSE IF found = {}
             THEN /\ got' = GetResult(key, FALSE, NoEntry, FALSE, FALSE)
                  /\ UNCHANGED getting
             ELSE /\ getting' = [key |-> key, overtaken |-> FALSE]
                  /\ got' = NoGot
        /\ UNCHANGED <<NotCache, now, cache, lastSet>>

\* RouterMotdCache::get from self.cache.remove(&key) on: whatever is under the
\* key now is removed, and get returns None.  lastSet forgets the set whose
\* entry expired, not a later one.
get_remove ==
    /\ getting # NoGetting
    /\ cache' = remove(cache, getting.key)
    /\ lastSet' = IF getting.overtaken THEN lastSet ELSE remove(lastSet, getting.key)
    /\ got' = GetResult(getting.key, FALSE, NoEntry, TRUE, getting.overtaken)
    /\ getting' = NoGetting
    /\ UNCHANGED <<NotCache, now>>

\* RouterMotdCache::clear
clear(ip, host, granularity) ==
    LET key == generate_key(ip, host, granularity)
    IN  /\ cache' = remove(cache, key)
        /\ lastSet' = remove(lastSet, key)
        /\ got' = NoGot
        /\ UNCHANGED <<NotCache, now, getting>>

\* RouterMotdCache::cleanup_expired
cleanup_expired ==
    /\ cache' = {e \in cache : unexpired(e.entry, now)}
    /\ lastSet' = {r \in lastSet :
                     \E e \in lookup(cache, r.key) : unexpired(e.entry, now)}
    /\ got' = NoGot
    /\ UNCHANGED <<NotCache, now, getting>>

\* time passes
tick ==
    /\ now < MaxTime
    /\ now' = now + 1
    /\ got' = NoGot
    /\ UNCHANGED <<NotCache, cache, getting, lastSet>>

NextCache ==
    \/ \E ip \in CacheIps, c \in CacheCalls, d \in CacheInputs :
         set(ip, c[1], d[1], CacheConfig(c[2], d[2], d[3], d[4]))
    \/ \E ip \in CacheIps, c \in CacheCalls : get(ip, c[1], c[2])
    \/ get_remove
    \/ \E ip \in CacheIps, c \in CacheCalls : clear(ip, c[1], c[2])
    \/ cleanup_expired
    \/ tick

SpecCache == Init /\ [][NextCache]_vars

\* ----------------------------------------------------------------- status
\* The status path and the MOTD rendezvous: one listener is bound and
\* accepting; every client is the same peer and sends a status handshake for
\* the same host; the embedder registers the MOTD callback and submits
\* decisions, one of which carries a cache directive {ipHost, ttl 1}; time
\* passes.
CachedMotdJson ==
    Json([MotdDecision("A Minecraft Server", None) EXCEPT
             !.cache = {CacheConfig("IpHost", 1, "absent", None)}])
StatusMotdJsons ==
    {CachedMotdJson, Json(MotdDecision(None, "Maintenance")), NullMotdJson}

NextStatus ==
    \/ \E l \in ListenerIds : accept(l)
    \/ \E l \in ListenerIds : insert_metrics(l)
    \/ \E l \in ListenerIds : insert_limiters(l)
    \/ \E l \in ListenerIds : spawn(l)
    \/ \E l \in ListenerIds : insert_handle(l)
    \/ proxy_register_motd_callback
    \/ \E id \in ConnIds, json \in StatusMotdJsons, r \in Codes :
         proxy_submit_motd_decision(id, json, r)
    \/ \E c \in ConnIds : parse_handshake(c, "status")
    \/ \E c \in ConnIds : status_request(c)
    \/ \E c \in ConnIds : get_motd_info_lock(c)
    \/ \E c \in ConnIds : request_motd_info(c)
    \/ \E c \in ConnIds : motd_decision(c)
    \/ \E c \in ConnIds : motd_timeout(c)
    \/ \E c \in ConnIds : motd_timeout_remove(c)
    \/ \E c \in ConnIds : send_status(c)
    \/ \E c \in ConnIds : ping(c)
    \/ \E c \in ConnIds : write_disconnect(c)
    \/ CleanupSteps
    \/ tick

SpecStatus == InitRoute /\ [][NextStatus]_vars

\* ------------------------------------------------------------ PROXY inbound
\* The PROXY stage in front of the status path: the embedder sets the
\* options, clients connect with or without a PROXY header and then send a
\* status handshake or garbage; no MOTD callback is registered, so that
\* request_motd_info answers the slot itself.
NextProxyIn ==
    \/ \E l \in ListenerIds : accept_login(l)
    \/ \E l \in ListenerIds : insert_metrics(l)
    \/ \E l \in ListenerIds : insert_limiters(l)
    \/ \E l \in ListenerIds : spawn(l)
    \/ \E l \in ListenerIds : insert_handle(l)
    \/ \E json \in OptionsJsons, r \in Codes : proxy_set_options(json, r)
    \/ \E c \in ConnIds, first \in FirstBytes : proxy_protocol_in(c, first)
    \/ \E c \in ConnIds, h \in {"status", "error"} : parse_handshake(c, h)
    \/ \E c \in ConnIds : status_request(c)
    \/ \E c \in ConnIds : get_motd_info_lock(c)
    \/ \E c \in ConnIds : request_motd_info(c)
    \/ \E c \in ConnIds : motd_decision(c)
    \/ \E c \in ConnIds : send_status(c)
    \/ \E c \in ConnIds : ping(c)
    \/ CleanupSteps

SpecProxyIn == InitRoute /\ [][NextProxyIn]_vars

\* --------------------------------------------------------------- PROXY peer
\* The PROXY stage in front of both paths: the embedder sets the options and
\* registers the two callbacks, a client connects with or without a PROXY
\* header and sends a status or a login handshake; route decisions ask for
\* no outbound PROXY header, for a v1 or for a v2 one.
ProxyRouteJsons ==
    { Json(RouteDecision(None, TRUE, FALSE, 0, FALSE)),
      Json(RouteDecision(None, TRUE, FALSE, 1, FALSE)),
      Json(RouteDecision(None, TRUE, TRUE, 2, FALSE)) }
ProxyMotdJsons == {Json(MotdDecision("A Minecraft Server", None))}

NextProxyPeer ==
    \/ \E l \in ListenerIds : accept_login(l)
    \/ \E l \in ListenerIds : insert_metrics(l)
    \/ \E l \in ListenerIds : insert_limiters(l)
    \/ \E l \in ListenerIds : spawn(l)
    \/ \E l \in ListenerIds : insert_handle(l)
    \/ \E json \in OptionsJsons, r \in Codes : proxy_set_options(json, r)
    \/ proxy_register_router
    \/ proxy_register_motd_callback
    \/ \E id \in ConnIds, json \in ProxyRouteJsons, r \in Codes :
         proxy_submit_routing_decision(id, json, r)
    \/ \E id \in ConnIds, json \in ProxyMotdJsons, r \in Codes :
         proxy_submit_motd_decision(id, json, r)
    \/ \E c \in ConnIds, first \in FirstBytes : proxy_protocol_in(c, first)
    \/ \E c \in ConnIds, h \in Handshakes : parse_handshake(c, h)
    \/ \E c \in ConnIds : parse_login_start(c)
    \/ \E c \in ConnIds : get_route_info_lock(c)
    \/ \E c \in ConnIds : request_route_info(c)
    \/ \E c \in ConnIds : route_decision(c)
    \/ \E c \in ConnIds : route_timeout(c)
    \/ \E c \in ConnIds : route_timeout_remove(c)
    \/ \E c \in ConnIds : write_disconnect(c)
    \/ \E c \in ConnIds : dial(c)
    \/ \E c \in ConnIds : write_proxy_header(c)
    \/ \E c \in ConnIds : write_handshake(c)
    \/ \E c \in ConnIds : write_login(c)
    \/ \E c \in ConnIds : forward(c)
    \/ \E c \in ConnIds : status_request(c)
    \/ \E c \in ConnIds : get_motd_info_lock(c)
    \/ \E c \in ConnIds : request_motd_info(c)
    \/ \E c \in ConnIds : motd_decision(c)
    \/ \E c \in ConnIds : motd_timeout(c)
    \/ \E c \in ConnIds : motd_timeout_remove(c)
    \/ \E c \in ConnIds : send_status(c)
    \/ \E c \in ConnIds : ping(c)
    \/ CleanupSteps

SpecProxyPeer == InitRoute /\ [][NextProxyPeer]_vars

\* ----------------------------------------------------------- forwarding loop
\* connection.rs copy_bidirectional_with_metrics(conn_id, a, b): a is the
\* client socket, b the backend socket.  The two totals returned in Ok are not
\* used by handle_conn and are left out.
rest == <<lib, OPTIONS, cached, told, regs, rdv, ltask, cancel, routeRx, motdRx,
          local, world, ctlv, hist>>
CopyPcs == {"forward", "copy_limiters", "select", "shutdown", "limit", "write",
            "count", "total"}
Other(d) == IF d = "a" THEN "b" ELSE "a"
Min(x, y) == IF x < y THEN x ELSE y
\* AtomicU64::fetch_add wraps
fetch_add(x, n) == (x + n) % CounterModulus
\* the bytes of a stream are recorded up to MaxStream
Record(seq, data) == SubSeq(seq \o data, 1, Min(Len(seq) + Len(data), MaxStream))

\* the peer of side d sends the next byte of its stream
peer_send(c, d) ==
    /\ pc[c] \in CopyPcs
    /\ ~sock[c][d].eof
    /\ sock[c][d].sent < MaxStream
    /\ Len(sock[c][d].rd) < BufSize
    /\ sock' = [sock EXCEPT ![c][d].rd = Append(@, sock[c][d].sent + 1),
                            ![c][d].sent = @ + 1]
    /\ UNCHANGED <<rest, pc, limits, metrics, TOTAL_BYTES_SENT, TOTAL_BYTES_RECV,
                   copy, snapshot>>

\* the peer of side d sends the first byte of its stream
peer_send_first(c, d) == sock[c][d].sent = 0 /\ peer_send(c, d)

\* the peer of side d keeps sending one byte after the other, all alike
peer_send_steady(c, d) ==
    /\ pc[c] \in CopyPcs
    /\ ~sock[c][d].eof
    /\ Len(sock[c][d].rd) < BufSize
    /\ sock' = [sock EXCEPT ![c][d].rd = Append(@, 1), ![c][d].sent = 1]
    /\ UNCHANGED <<rest, pc, limits, metrics, TOTAL_BYTES_SENT, TOTAL_BYTES_RECV,
                   copy, snapshot>>

\* the peer of side d closes its sending side
peer_close(c, d) ==
    /\ pc[c] \in CopyPcs
    /\ ~sock[c][d].eof
    /\ sock' = [sock EXCEPT ![c][d].eof = TRUE]
    /\ UNCHANGED <<rest, pc, limits, metrics, TOTAL_BYTES_SENT, TOTAL_BYTES_RECV,
                   copy, snapshot>>

\* CONN_METRICS.lock().unwrap().get(&conn_id).cloned().ok_or_else(..)?
copy_metrics(c) ==
    /\ pc[c] = "forward"
    /\ ~MetricsLocked
    /\ Goto(c, IF c \in CONN_METRICS THEN "copy_limiters" ELSE "cleanup1")
    /\ UNCHANGED <<rest, fwd>>

\* RATE_LIMITERS.lock().unwrap().get(&conn_id).cloned().ok_or_else(..)?: the
\* loop works with its own clones of the two Arcs
copy_limiters(c) ==
    /\ pc[c] = "copy_limiters"
    /\ IF c \in RATE_LIMITERS
         THEN /\ copy' = [copy EXCEPT ![c] =
                    [NoCopy EXCEPT !.send_limiter = limits[c].send,
                                   !.recv_limiter = limits[c].recv]]
              /\ Goto(c, "select")
         ELSE /\ UNCHANGED copy
              /\ Goto(c, "cleanup1")
    /\ UNCHANGED <<rest, limits, metrics, TOTAL_BYTES_SENT, TOTAL_BYTES_RECV,
                   sock, snapshot>>

Closed(c, d) == IF d = "a" THEN copy[c].a_closed ELSE copy[c].b_closed
\* the read of side d would return at once: bytes, or end of stream
Readable(c, d) == sock[c][d].rd # <<>> \/ sock[c][d].eof
\* the branch of side d is enabled and its read is ready
Ready(c, d) == ~Closed(c, d) /\ Readable(c, d)

\* the handler of a branch, up to its first await: result?; n == 0: mark the
\* side closed and shut the other side down if it is open; else start the
\* chunk loop
Branch(c, d) ==
    \E ok \in BOOLEAN :
        IF ~ok
          THEN /\ Goto(c, "cleanup1")
               /\ UNCHANGED <<copy, sock>>
        ELSE IF sock[c][d].rd = <<>>
          THEN /\ copy' = [copy EXCEPT
                    ![c].dir = d,
                    ![c].a_closed = IF d = "a" THEN TRUE ELSE @,
                    ![c].b_closed = IF d = "b" THEN TRUE ELSE @]
               /\ Goto(c, IF Closed(c, Other(d)) THEN "select" ELSE "shutdown")
               /\ UNCHANGED sock
        ELSE \E n \in 1..Min(Len(sock[c][d].rd), BufSize) :
               /\ copy' = [copy EXCEPT
                    ![c].dir = d,
                    ![c].buf = SubSeq(sock[c][d].rd, 1, n),
                    ![c].offset = 0,
                    ![c].remaining = n]
               /\ sock' = [sock EXCEPT
                    ![c][d].rd = SubSeq(@, n + 1, Len(@)),
                    ![c][d].taken = Record(@, SubSeq(sock[c][d].rd, 1, n))]
               /\ Goto(c, "limit")

\* tokio::select! { biased; .. }: the branches are polled in the order
\* written, so the read of b is polled only when the read of a is disabled
\* (a_closed) or pending
select_a(c) ==
    /\ pc[c] = "select"
    /\ Ready(c, "a")
    /\ Branch(c, "a")
    /\ UNCHANGED <<rest, limits, metrics, TOTAL_BYTES_SENT, TOTAL_BYTES_RECV,
                   snapshot>>

select_b(c) ==
    /\ pc[c] = "select"
    /\ ~Ready(c, "a")
    /\ Ready(c, "b")
    /\ Branch(c, "b")
    /\ UNCHANGED <<rest, limits, metrics, TOTAL_BYTES_SENT, TOTAL_BYTES_RECV,
                   snapshot>>

\* A loop that breaks as soon as one side is closed.
select_else_one_closed(c) ==
    /\ pc[c] = "select"
    /\ copy[c].a_closed \/ copy[c].b_closed
    /\ Goto(c, "cleanup1")
    /\ UNCHANGED <<rest, fwd>>

\* else => break; Ok(..): handle_conn goes on to cleanup_conn
select_else(c) ==
    /\ pc[c] = "select"
    /\ copy[c].a_closed /\ copy[c].b_closed
    /\ Goto(c, "cleanup1")
    /\ UNCHANGED <<rest, fwd>>

\* b.shutdown().await? (resp. a.shutdown().await?)
shutdown(c) ==
    /\ pc[c] = "shutdown"
    /\ \E ok \in BOOLEAN :
         IF ok
           THEN /\ sock' = [sock EXCEPT ![c][Other(copy[c].dir)].shutdowns = @ + 1]
                /\ Goto(c, "select")
           ELSE /\ UNCHANGED sock
                /\ Goto(c, "cleanup1")
    /\ UNCHANGED <<rest, limits, metrics, TOTAL_BYTES_SENT, TOTAL_BYTES_RECV,
                   copy, snapshot>>

chunk_size(c) == Min(copy[c].remaining, ChunkSize)
limiter(c) == IF copy[c].dir = "a" THEN copy[c].send_limiter ELSE copy[c].recv_limiter

\* send_limiter.until_n_ready(num).await.unwrap(): the wait ends when the
\* bucket holds num cells; a num above the burst of the quota is
\* Err(InsufficientCapacity), and the unwrap panics
limit(c) ==
    /\ pc[c] = "limit"
    /\ Goto(c, IF chunk_size(c) > limiter(c).burst THEN "panicked" ELSE "write")
    /\ UNCHANGED <<rest, fwd>>

\* A write that takes every chunk from the start of the buffer.
write_from_start(c) ==
    /\ pc[c] = "write"
    /\ LET to == Other(copy[c].dir)
           chunk == SubSeq(copy[c].buf, 1, chunk_size(c))
       IN  \E k \in 0..Len(chunk) :
             /\ sock' = [sock EXCEPT
                  ![c][to].wr = Record(@, SubSeq(chunk, 1, k)),
                  ![c][to].acked = IF k = Len(chunk)
                                     THEN Min(@ + k, MaxStream) ELSE @]
             /\ Goto(c, IF k = Len(chunk) THEN "count" ELSE "cleanup1")
    /\ UNCHANGED <<rest, limits, metrics, TOTAL_BYTES_SENT, TOTAL_BYTES_RECV,
                   copy, snapshot>>

\* b.write_all(&a_buf[offset..offset + chunk_size]).await?: every byte of the
\* chunk is written, or an error after some of them
write(c) ==
    /\ pc[c] = "write"
    /\ LET to == Other(copy[c].dir)
           chunk == SubSeq(copy[c].buf, copy[c].offset + 1,
                           copy[c].offset + chunk_size(c))
       IN  \E k \in 0..Len(chunk) :
             /\ sock' = [sock EXCEPT
                  ![c][to].wr = Record(@, SubSeq(chunk, 1, k)),
                  ![c][to].acked = IF k = Len(chunk)
                                     THEN Min(@ + k, MaxStream) ELSE @]
             /\ Goto(c, IF k = Len(chunk) THEN "count" ELSE "cleanup1")
    /\ UNCHANGED <<rest, limits, metrics, TOTAL_BYTES_SENT, TOTAL_BYTES_RECV,
                   copy, snapshot>>

\* A count of the whole read with its first chunk.
count_whole_read(c) ==
    /\ pc[c] = "count"
    /\ metrics' = [metrics EXCEPT
         ![c].bytes_sent = IF copy[c].dir = "a"
                             THEN fetch_add(@, copy[c].remaining) ELSE @,
         ![c].bytes_recv = IF copy[c].dir = "b"
                             THEN fetch_add(@, copy[c].remaining) ELSE @]
    /\ Goto(c, "total")
    /\ UNCHANGED <<rest, limits, TOTAL_BYTES_SENT, TOTAL_BYTES_RECV, copy, sock,
                   snapshot>>

\* conn_metrics.bytes_sent.fetch_add(chunk_size) (resp. bytes_recv)
count(c) ==
    /\ pc[c] = "count"
    /\ metrics' = [metrics EXCEPT
         ![c].bytes_sent = IF copy[c].dir = "a"
                             THEN fetch_add(@, chunk_size(c)) ELSE @,
         ![c].bytes_recv = IF copy[c].dir = "b"
                             THEN fetch_add(@, chunk_size(c)) ELSE @]
    /\ Goto(c, "total")
    /\ UNCHANGED <<rest, limits, TOTAL_BYTES_SENT, TOTAL_BYTES_RECV, copy, sock,
                   snapshot>>

\* TOTAL_BYTES_SENT.fetch_add(chunk_size) (resp. TOTAL_BYTES_RECV); offset +=
\* chunk_size; remaining -= chunk_size; and the test of the while
total(c) ==
    /\ pc[c] = "total"
    /\ IF copy[c].dir = "a"
         THEN /\ TOTAL_BYTES_SENT' = fetch_add(TOTAL_BYTES_SENT, chunk_size(c))
              /\ UNCHANGED TOTAL_BYTES_RECV
         ELSE /\ TOTAL_BYTES_RECV' = fetch_add(TOTAL_BYTES_RECV, chunk_size(c))
              /\ UNCHANGED TOTAL_BYTES_SENT
    /\ IF copy[c].remaining > chunk_size(c)
         THEN /\ copy' = [copy EXCEPT ![c].offset = @ + chunk_size(c),
                                      ![c].remaining = @ - chunk_size(c)]
              /\ Goto(c, "limit")
         ELSE /\ copy' = [copy EXCEPT ![c].buf = <<>>, ![c].offset = 0,
                                      ![c].remaining = 0]
              /\ Goto(c, "select")
    /\ UNCHANGED <<rest, limits, metrics, sock, snapshot>>

CopySteps ==
    \/ \E c \in ConnIds : copy_metrics(c)
    \/ \E c \in ConnIds : copy_limiters(c)
    \/ \E c \in ConnIds : select_a(c)
    \/ \E c \in ConnIds : select_b(c)
    \/ \E c \in ConnIds : select_else(c)
    \/ \E c \in ConnIds : shutdown(c)
    \/ \E c \in ConnIds : limit(c)
    \/ \E c \in ConnIds : write(c)
    \/ \E c \in ConnIds : count(c)
    \/ \E c \in ConnIds : total(c)

\* ffi.rs proxy_get_metrics, one step per lock and per atomic load
unfwd == <<lib, OPTIONS, cached, told, limits, metrics, TOTAL_BYTES_SENT,
           TOTAL_BYTES_RECV, copy, sock, regs, rdv, ltask, etask, world, hist>>

\* let conn_metrics_guard = CONN_METRICS.lock().unwrap(); .iter()
get_metrics_lock ==
    /\ ctl = "idle"
    /\ ctl' = "get_metrics"
    /\ snapshot' = [NoSnapshot EXCEPT !.st = "connections", !.todo = CONN_METRICS]
    /\ UNCHANGED unfwd

\* bytes_sent: metrics.bytes_sent.load(..) of the next entry
get_metrics_bytes_sent(id) ==
    /\ ctl = "get_metrics"
    /\ snapshot.st = "connections"
    /\ snapshot.cur = {}
    /\ id \in snapshot.todo
    /\ snapshot' = [snapshot EXCEPT
         !.cur = {[id |-> id, bytes_sent |-> metrics[id].bytes_sent,
                   bytes_recv |-> 0]}]
    /\ UNCHANGED <<unfwd, ctl>>

\* bytes_recv: metrics.bytes_recv.load(..); the pair joins the collection
get_metrics_bytes_recv(id) ==
    /\ ctl = "get_metrics"
    /\ snapshot.st = "connections"
    /\ \E m \in snapshot.cur :
         /\ m.id = id
         /\ snapshot' = [snapshot EXCEPT
              !.cur = {},
              !.todo = @ \ {id},
              !.connections = @ \cup
                  {[m EXCEPT !.bytes_recv = metrics[id].bytes_recv]}]
    /\ UNCHANGED <<unfwd, ctl>>

\* total_conn: TOTAL_CONN.load(..), once the iteration is over
get_metrics_total_conn ==
    /\ ctl = "get_metrics"
    /\ snapshot.st = "connections"
    /\ snapshot.todo = {}
    /\ snapshot' = [snapshot EXCEPT !.st = "active_conn", !.total_conn = TOTAL_CONN]
    /\ UNCHANGED <<unfwd, ctl>>

\* active_conn: ACTIVE_CONN.load(..)
get_metrics_active_conn ==
    /\ ctl = "get_metrics"
    /\ snapshot.st = "active_conn"
    /\ snapshot' = [snapshot EXCEPT !.st = "total_bytes_sent",
                                    !.active_conn = ACTIVE_CONN]
    /\ UNCHANGED <<unfwd, ctl>>

\* total_bytes_sent: TOTAL_BYTES_SENT.load(..)
get_metrics_total_bytes_sent ==
    /\ ctl = "get_metrics"
    /\ snapshot.st = "total_bytes_sent"
    /\ snapshot' = [snapshot EXCEPT !.st = "total_bytes_recv",
                                    !.total_bytes_sent = TOTAL_BYTES_SENT]
    /\ UNCHANGED <<unfwd, ctl>>

\* total_bytes_recv: TOTAL_BYTES_RECV.load(..)
get_metrics_total_bytes_recv ==
    /\ ctl = "get_metrics"
    /\ snapshot.st = "total_bytes_recv"
    /\ snapshot' = [snapshot EXCEPT !.st = "serialize",
                                    !.total_bytes_recv = TOTAL_BYTES_RECV]
    /\ UNCHANGED <<unfwd, ctl>>

\* serde_json::to_string(&snapshot), into_raw(); the guard is dropped
get_metrics_return ==
    /\ ctl = "get_metrics"
    /\ snapshot.st = "serialize"
    /\ ctl' = "idle"
    /\ snapshot' = [snapshot EXCEPT !.st = "returned"]
    /\ UNCHANGED unfwd

GetMetricsSteps ==
    \/ get_metrics_lock
    \/ \E id \in ConnIds : get_metrics_bytes_sent(id)
    \/ \E id \in ConnIds : get_metrics_bytes_recv(id)
    \/ get_metrics_total_conn
    \/ get_metrics_active_conn
    \/ get_metrics_total_bytes_sent
    \/ get_metrics_total_bytes_recv
    \/ get_metrics_return

\* the route decision of the forwarding runs: a backend, no PROXY header
ForwardRouteJsons == {Json(RouteDecision(None, TRUE, FALSE, 0, FALSE))}

\* One client logs in, is routed to a backend, and the two peers send up to
\* MaxStream bytes each and close; the embedder may disconnect the connection.
LoginSteps ==
    \/ \E l \in ListenerIds : insert_metrics(l)
    \/ \E l \in ListenerIds : insert_limiters(l)
    \/ \E l \in ListenerIds : spawn(l)
    \/ \E l \in ListenerIds : insert_handle(l)
    \/ proxy_register_router
    \/ \E id \in ConnIds, json \in ForwardRouteJsons, r \in Codes :
         proxy_submit_routing_decision(id, json, r)
    \/ \E c \in 1..MaxLogins : parse_handshake(c, "login")
    \/ \E c \in ConnIds : parse_login_start(c)
    \/ \E c \in ConnIds : get_route_info_lock(c)
    \/ \E c \in ConnIds : request_route_info(c)
    \/ \E c \in ConnIds : route_decision(c)
    \/ \E c \in ConnIds : write_disconnect(c)
    \/ \E c \in ConnIds : dial(c)
    \/ \E c \in ConnIds : write_handshake(c)
    \/ \E c \in ConnIds : write_login(c)

NextForward ==
    \/ \E l \in ListenerIds : accept_login(l)
    \/ LoginSteps
    \/ CopySteps
    \/ \E c \in ConnIds, d \in {"a", "b"} : peer_send(c, d)
    \/ \E c \in ConnIds, d \in {"a", "b"} : peer_close(c, d)
    \/ \E id \in ConnIds, r \in Codes : proxy_disconnect(id, r)
    \/ \E c \in ConnIds : TaskCancelled(c)
    \/ CleanupSteps

SpecForward == InitRoute /\ [][NextForward]_vars

\* Metrics: one client logs in and sends, the backend only closes, and the
\* embedder takes snapshots.
NextMetrics ==
    \/ \E l \in ListenerIds : accept_login(l)
    \/ LoginSteps
    \/ CopySteps
    \/ \E c \in ConnIds : peer_send(c, "a")
    \/ \E c \in ConnIds, d \in {"a", "b"} : peer_close(c, d)
    \/ GetMetricsSteps
    \/ CleanupSteps

SpecMetrics == InitRoute /\ [][NextMetrics]_vars

\* Steady traffic: one client logs in and keeps sending, the backend sends
\* one byte; either may close.  The runtime runs a task that can
\* take a step.
TaskStep(c) ==
    \/ copy_metrics(c)
    \/ copy_limiters(c)
    \/ select_a(c)
    \/ select_b(c)
    \/ select_else(c)
    \/ shutdown(c)
    \/ limit(c)
    \/ write(c)
    \/ count(c)
    \/ total(c)
NextSteady ==
    \/ \E l \in ListenerIds : accept_login(l)
    \/ LoginSteps
    \/ CopySteps
    \/ \E c \in ConnIds : peer_send_steady(c, "a")
    \/ \E c \in ConnIds : peer_send_first(c, "b")
    \/ \E c \in ConnIds, d \in {"a", "b"} : peer_close(c, d)
    \/ CleanupSteps

SpecSteady ==
    /\ InitRoute
    /\ [][NextSteady]_vars
    /\ \A c \in ConnIds : WF_vars(TaskStep(c))

\* Half-close: one client logs in, both peers send up to MaxStream bytes and
\* close at any time.  The runtime runs a task that can take a step.
NextHalfClose ==
    \/ \E l \in ListenerIds : accept_login(l)
    \/ LoginSteps
    \/ CopySteps
    \/ \E c \in ConnIds, d \in {"a", "b"} : peer_send(c, d)
    \/ \E c \in ConnIds, d \in {"a", "b"} : peer_close(c, d)
    \/ CleanupSteps

SpecHalfClose ==
    /\ InitRoute
    /\ [][NextHalfClose]_vars
    /\ \A c \in ConnIds : WF_vars(TaskStep(c))

\* Rate limits: two clients connect, the first logs in and sends, the second
\* has sent nothing yet; the backend only closes; the embedder sets the
\* rate limits of either at any time.
RateLimitArgs == {<<0, 0, 0, 0>>, <<U32Modulus + 1, U32Modulus, 3, 2>>}
NextLimit ==
    \/ \E l \in ListenerIds : accept(l)
    \/ LoginSteps
    \/ CopySteps
    \/ \E c \in ConnIds : peer_send(c, "a")
    \/ \E c \in ConnIds, d \in {"a", "b"} : peer_close(c, d)
    \/ \E id \in ConnIds, args \in RateLimitArgs, r \in Codes :
         proxy_set_rate_limit(id, args, r)
    \/ CleanupSteps

SpecLimit == InitRoute /\ [][NextLimit]_vars

\* Shaping: one client logs in and both peers send; the embedder sets rate
\* limits inside the u32 range at any time, one of them with a burst below
\* the chunk size.  The runtime runs a task that can take a step.
ShapeArgs == {<<1, 1, 1, 1>>, <<3, 2, 3, 2>>}
NextShape ==
    \/ \E l \in ListenerIds : accept_login(l)
    \/ LoginSteps
    \/ CopySteps
    \/ \E c \in ConnIds, d \in {"a", "b"} : peer_send(c, d)
    \/ \E c \in ConnIds, d \in {"a", "b"} : peer_close(c, d)
    \/ \E id \in ConnIds, args \in ShapeArgs, r \in Codes :
         proxy_set_rate_limit(id, args, r)
    \/ CleanupSteps

SpecShape ==
    /\ InitRoute
    /\ [][NextShape]_vars
    /\ \A c \in ConnIds : WF_vars(TaskStep(c))

\* Decisions that do not parse: the login path of NextRoute and the status
\* path side by side; the embedder registers both callbacks and submits
\* route and MOTD decisions, among them a text that is not JSON and a null
\* pointer.
NextInvalid ==
    \/ NextRoute
    \/ proxy_register_motd_callback
    \/ \E id \in ConnIds, json \in MotdJsons, r \in Codes :
         proxy_submit_motd_decision(id, json, r)
    \/ \E c \in ConnIds : parse_handshake(c, "status")
    \/ \E c \in ConnIds : status_request(c)
    \/ \E c \in ConnIds : get_motd_info_lock(c)
    \/ \E c \in ConnIds : request_motd_info(c)
    \/ \E c \in ConnIds : motd_decision(c)
    \/ \E c \in ConnIds : motd_timeout(c)
    \/ \E c \in ConnIds : motd_timeout_remove(c)
    \/ \E c \in ConnIds : send_status(c)
    \/ \E c \in ConnIds : ping(c)

SpecInvalid == InitRoute /\ [][NextInvalid]_vars

\* ----------------------------------------------------------- missing oracle
\* Both paths with and without a registered callback: clients send a login
\* or a status handshake, the embedder registers the router and the MOTD
\* callback at any time, and answers the requests it was handed. A
\* connection id reaches the embedder only as the first argument of the
\* callback (connection.rs:515, 805), so it submits decisions for ids a
\* callback was called with.
OracleRouteJsons ==
    { Json(RouteDecision(None, TRUE, FALSE, 0, FALSE)),
      Json(RouteDecision("Banned.", FALSE, FALSE, 0, FALSE)) }
OracleMotdJsons == {Json(MotdDecision("A Minecraft Server", None))}

\* the callbacks' side: proxy_submit_routing_decision / proxy_submit_motd_decision
\* for a request that was handed over
router_reply(id, json, r) ==
    /\ told[id] # {}
    /\ proxy_submit_routing_decision(id, json, r)

motd_reply(id, json, r) ==
    /\ told[id] # {}
    /\ proxy_submit_motd_decision(id, json, r)

NextOracle ==
    \/ \E l \in ListenerIds : accept_login(l)
    \/ \E l \in ListenerIds : insert_metrics(l)
    \/ \E l \in ListenerIds : insert_limiters(l)
    \/ \E l \in ListenerIds : spawn(l)
    \/ \E l \in ListenerIds : insert_handle(l)
    \/ proxy_register_router
    \/ proxy_register_motd_callback
    \/ \E id \in ConnIds, json \in OracleRouteJsons, r \in Codes :
         router_reply(id, json, r)
    \/ \E id \in ConnIds, json \in OracleMotdJsons, r \in Codes :
         motd_reply(id, json, r)
    \/ \E id \in ConnIds, r \in Codes : proxy_disconnect(id, r)
    \/ \E c \in ConnIds : TaskCancelled(c)
    \/ \E c \in ConnIds, h \in {"login", "status"} : parse_handshake(c, h)
    \/ \E c \in ConnIds : parse_login_start(c)
    \/ \E c \in ConnIds : get_route_info_lock(c)
    \/ \E c \in ConnIds : request_route_info(c)
    \/ \E c \in ConnIds : route_decision(c)
    \/ \E c \in ConnIds : route_timeout(c)
    \/ \E c \in ConnIds : route_timeout_remove(c)
    \/ \E c \in ConnIds : write_disconnect(c)
    \/ \E c \in ConnIds : dial(c)
    \/ \E c \in ConnIds : write_handshake(c)
    \/ \E c \in ConnIds : write_login(c)
    \/ \E c \in ConnIds : forward(c)
    \/ \E c \in ConnIds : status_request(c)
    \/ \E c \in ConnIds : get_motd_info_lock(c)
    \/ \E c \in ConnIds : request_motd_info(c)
    \/ \E c \in ConnIds : motd_decision(c)
    \/ \E c \in ConnIds : motd_timeout(c)
    \/ \E c \in ConnIds : motd_timeout_remove(c)
    \/ \E c \in ConnIds : send_status(c)
    \/ \E c \in ConnIds : ping(c)
    \/ CleanupSteps

SpecOracle == InitRoute /\ [][NextOracle]_vars

\* ------------------------------------------------------------------ framing
\* handle_conn on the bytes a client sends: protocol::parse_handshake, the
\* branch on hs.next_state, protocol::parse_login_start.

\* protocol.rs parse_login_start(stream)
protocol_parse_login_start(stream) ==
    LET packet_len == read_varint(stream)
        packet_id == read_varint(packet_len.rest)
    IN  IF ~packet_len.ok THEN packet_len
        ELSE IF ~packet_id.ok THEN packet_id
        ELSE IF packet_id.value # 0 THEN ReadErr("Invalid login start packet ID")
        ELSE read_string(packet_id.rest)

\* read_varint computes value << (7 * num_read) before it checks num_read > 5:
\* on a sixth byte that is a shift of an i32 by 35, which panics in a build
\* with overflow checks and is masked otherwise (the Err follows).  A parse
\* that ran into a sixth byte ends, per build, in either.
Outcomes(r) == IF ~r.ok /\ r.err = "VarInt too big" THEN {"err", "panic"}
               ELSE IF r.ok THEN {"ok"} ELSE {"err"}

\* let hs = match protocol::parse_handshake(&mut inbound).await { Err =>
\* cleanup_conn, return }; if hs.next_state == 1 { status } else if
\* hs.next_state != 2 { cleanup_conn, return }
read_handshake(c, stream) ==
    /\ pc[c] = "handshake"
    /\ LET hs == protocol_parse_handshake(stream)
       IN  \E o \in Outcomes(hs) :
             /\ local' = [local EXCEPT
                            ![c].hs = [st |-> o,
                                       next_state |-> IF hs.ok THEN hs.value.next_state
                                                      ELSE 0]]
             /\ Goto(c, CASE o = "panic" -> "panicked"
                          [] o = "err" -> "cleanup1"
                          [] hs.value.next_state = 1 -> "status_request"
                          [] hs.value.next_state # 2 -> "cleanup1"
                          [] OTHER -> "login_start")
    /\ UNCHANGED <<aux, regs, rdv, ltask, cancel, routeRx, motdRx, world, ctlv, hist>>

\* let username = match protocol::parse_login_start(&mut inbound).await
read_login_start(c, stream) ==
    /\ pc[c] = "login_start"
    /\ \E o \in Outcomes(protocol_parse_login_start(stream)) :
         /\ local' = [local EXCEPT ![c].username = o]
         /\ Goto(c, CASE o = "panic" -> "panicked"
                      [] o = "err" -> "cleanup1"
                      [] OTHER -> "route_lock")
    /\ UNCHANGED <<aux, regs, rdv, ltask, cancel, routeRx, motdRx, world, ctlv, hist>>

\* What a client sends first.  Protocol 47, host "a", port 25565 and
\* next_state 1, 2, 0, 3, -1; the packet id 1; a host length of 262145; a
\* host that is not UTF-8; a packet length of six bytes; a stream that ends
\* in the middle; nothing at all.
HandshakeBytes(next_state) == <<7, 0, 47, 1, 97, 99, 221>> \o next_state
StatusHandshakes == {HandshakeBytes(<<1>>)}
LoginHandshakes == {HandshakeBytes(<<2>>)}
UnknownStateHandshakes ==
    {HandshakeBytes(<<0>>), HandshakeBytes(<<3>>),
     HandshakeBytes(<<255, 255, 255, 255, 15>>)}
BadHandshakes ==
    { <<7, 1, 47, 1, 97, 99, 221, 2>>,
      <<7, 0, 47, 129, 128, 16, 97, 99, 221, 2>>,
      <<7, 0, 47, 1, 255, 99, 221, 2>>,
      <<7, 0, 47, 1, 97, 99>>,
      <<>> }
OverlongHandshakes ==
    { <<128, 128, 128, 128, 128, 1, 0, 47, 1, 97, 99, 221, 2>>,
      <<7, 0, 47, 1, 97, 99, 221, 128, 128, 128, 128, 128, 0>> }
FirstPackets ==
    StatusHandshakes \cup LoginHandshakes \cup UnknownStateHandshakes
      \cup BadHandshakes \cup OverlongHandshakes
\* login start: "ab"; the packet id 1; a name length of 262145; a name
\* length of six bytes; nothing
GoodLoginStarts == {<<4, 0, 2, 97, 98>>}
BadLoginStarts == {<<4, 1, 2, 97, 98>>, <<4, 0, 129, 128, 16>>, <<>>}
OverlongLoginStarts == {<<4, 0, 128, 128, 128, 128, 128, 1>>}
LoginStarts == GoodLoginStarts \cup BadLoginStarts \cup OverlongLoginStarts

NextFraming ==
    \/ \E l \in ListenerIds : accept_login(l)
    \/ \E l \in ListenerIds : insert_metrics(l)
    \/ \E l \in ListenerIds : insert_limiters(l)
    \/ \E l \in ListenerIds : spawn(l)
    \/ \E l \in ListenerIds : insert_handle(l)
    \/ \E id \in ConnIds, r \in Codes : proxy_disconnect(id, r)
    \/ \E c \in ConnIds : TaskCancelled(c)
    \/ \E c \in ConnIds, stream \in FirstPackets : read_handshake(c, stream)
    \/ \E c \in ConnIds, stream \in LoginStarts : read_login_start(c, stream)
    \/ \E c \in ConnIds : get_route_info_lock(c)
    \/ \E c \in ConnIds : request_route_info(c)
    \/ \E c \in ConnIds : route_decision(c)
    \/ \E c \in ConnIds : write_disconnect(c)
    \/ \E c \in ConnIds : status_request(c)
    \/ \E c \in ConnIds : get_motd_info_lock(c)
    \/ \E c \in ConnIds : request_motd_info(c)
    \/ \E c \in ConnIds : motd_decision(c)
    \/ \E c \in ConnIds : send_status(c)
    \/ \E c \in ConnIds : ping(c)
    \/ CleanupSteps

SpecFraming == InitRoute /\ [][NextFraming]_vars

\* ------------------------------------------------------------- backend dial
\* The login path with decisions that differ in their proxy field: absent, a
\* socks5 URL, a URL of another scheme, a text that is no URL.
DialRouteJsons ==
    { Json(RouteDecision(None, TRUE, FALSE, 0, FALSE)),
      Json(RouteDecision(None, TRUE, TRUE, 0, FALSE)),
      Json([RouteDecision(None, TRUE, TRUE, 0, FALSE) EXCEPT !.proxy_url = "other"]),
      Json([RouteDecision(None, TRUE, TRUE, 0, FALSE) EXCEPT
               !.proxy_url = "unparseable"]) }

NextDial ==
    \/ \E l \in ListenerIds : accept_login(l)
    \/ \E l \in ListenerIds : insert_metrics(l)
    \/ \E l \in ListenerIds : insert_limiters(l)
    \/ \E l \in ListenerIds : spawn(l)
    \/ \E l \in ListenerIds : insert_handle(l)
    \/ proxy_register_router
    \/ \E id \in ConnIds, json \in DialRouteJsons, r \in Codes :
         proxy_submit_routing_decision(id, json, r)
    \/ \E id \in ConnIds, r \in Codes : proxy_disconnect(id, r)
    \/ \E c \in ConnIds : TaskCancelled(c)
    \/ \E c \in ConnIds : parse_handshake(c, "login")
    \/ \E c \in ConnIds : parse_login_start(c)
    \/ \E c \in ConnIds : get_route_info_lock(c)
    \/ \E c \in ConnIds : request_route_info(c)
    \/ \E c \in ConnIds : route_decision(c)
    \/ \E c \in ConnIds : route_timeout(c)
    \/ \E c \in ConnIds : route_timeout_remove(c)
    \/ \E c \in ConnIds : write_disconnect(c)
    \/ \E c \in ConnIds : dial(c)
    \/ \E c \in ConnIds : write_handshake(c)
    \/ \E c \in ConnIds : write_login(c)
    \/ \E c \in ConnIds : forward(c)
    \/ CleanupSteps

SpecDial == InitRoute /\ [][NextDial]_vars

\* ------------------------------------------------------------- properties
\* Positions of a task that has entered cleanup_conn and not yet returned.
CleanupPcs == {"cleanup1", "cleanup2", "cleanup3", "cleanup4"}

\* No accept body, cleanup_conn, disconnect, kick_all or shutdown is part-way
\* through.
Quiescent ==
    /\ ctl = "idle"
    /\ \A l \in ListenerIds : ~LRunning(l)
    /\ \A c \in ConnIds : pc[c] \notin CleanupPcs

InAll(c) == c \in connections /\ c \in CONN_METRICS /\ c \in RATE_LIMITERS
InNone(c) == c \notin connections /\ c \notin CONN_METRICS /\ c \notin RATE_LIMITERS

\* C1: whenever no accept, cleanup_conn, disconnect or kick_all is part-way
\* through, every connection id is in all three of the connection table, the
\* metrics table and the limiter table, or in none of them.
C1_AllOrNone == Quiescent => \A c \in ConnIds : InAll(c) \/ InNone(c)

\* C2: ACTIVE_CONN is decremented at most once for every connection id, and
\* so never goes below zero (never wraps as a u64).
C2_DecrementedAtMostOnce ==
    /\ \A c \in ConnIds : decrements[c] <= 1
    /\ ~ActiveConnWrapped

\* C3: whenever no accept, cleanup_conn, disconnect, kick_all or shutdown is
\* part-way through, ACTIVE_CONN equals the number of entries of the
\* connection table.
C3_ActiveConnIsTableSize == Quiescent => ACTIVE_CONN = Cardinality(connections)

\* C4: when proxy_shutdown returns, the listener table, the connection table,
\* the metrics table and the limiter table are empty, and no listener task or
\* engine task that was registered is left alive (each is dropped, or marked
\* for cancellation at its next await).
TaskAborted(c) == pc[c] \in EndPcs \/ c \in cancel
ListenerAborted(l) == lpc[l] \in {"none", "failed", "aborted"} \/ l \in lcancel

C4_ShutdownEmptiesTables ==
    [][proxy_shutdown_metrics =>
          /\ listeners' = {}
          /\ connections' = {}
          /\ CONN_METRICS' = {}
          /\ RATE_LIMITERS' = {}
          /\ \A l \in listeners : ListenerAborted(l)'
          /\ \A c \in connections : TaskAborted(c)']_vars

\* C5: FFI_ROUTER_LOCK (resp. FFI_MOTD_LOCK) is not held by a task that is
\* awaiting its route (resp. MOTD) reply slot, so that a second connection can
\* allocate its slot meanwhile.
C5_LockFreeWhileAwaiting ==
    \A c \in ConnIds :
        /\ (pc[c] = "route_wait" /\ routeRx[c].st = "open") => FFI_ROUTER_LOCK # c
        /\ (pc[c] = "motd_wait" /\ motdRx[c].st = "open") => FFI_MOTD_LOCK # c

\* C6: outside the synchronous code of get_route_info (resp. get_motd_info)
\* between the insertion of the slot and the await, and between the timeout
\* and the removal, a reply slot exists for c exactly when the task of c is
\* awaiting the reply; no slot is left for a task that was aborted.
AwaitingRoute(c) == pc[c] = "route_wait" /\ routeRx[c].st = "open"
AwaitingMotd(c) == pc[c] = "motd_wait" /\ motdRx[c].st = "open"

C6_SlotIffAwaiting ==
    \A c \in ConnIds :
        pc[c] \notin RunPcs =>
            /\ c \in PENDING_ROUTES <=> AwaitingRoute(c)
            /\ c \in PENDING_MOTDS <=> AwaitingMotd(c)

\* C7: when the wait for the route decision times out, the engine removes the
\* route slot, goes on to send the login disconnect "Internal routing error."
\* and to cleanup_conn, which removes the registry entries; it never dials
\* and never writes outbound; a decision submitted for the id afterwards
\* returns PROXY_ERR_NOT_FOUND.
TimedOut(c) == local[c].result = "timeout"

C7_TimeoutPath ==
    \A c \in ConnIds :
        TimedOut(c) =>
            /\ c \notin PENDING_ROUTES
            /\ pc[c] \in {"write_disconnect", "done", "aborted"} \cup CleanupPcs
            /\ pc[c] = "write_disconnect" => local[c].msg = MsgInternalRoutingError
            /\ client[c].disconnect \in {None, MsgInternalRoutingError}
            /\ ~backend[c].dialed
            /\ backend[c].written = <<>>
            /\ pc[c] = "done" => c \notin CONN_METRICS /\ c \notin RATE_LIMITERS

C7_TimeoutStep ==
    \A c \in ConnIds :
        /\ (pc[c] = "route_timeout" /\ pc'[c] # pc[c]) =>
              /\ TimedOut(c)'
              /\ c \notin PENDING_ROUTES'
              /\ pc'[c] = "write_disconnect"
        /\ (TimedOut(c) /\ write_disconnect(c)) =>
              /\ pc'[c] = "cleanup1"
              /\ client'[c].disconnect = MsgInternalRoutingError
                    \/ client'[c] = client[c]
        /\ (TimedOut(c) /\ cleanup_conn_manager(c)) => c \notin connections'
        /\ TimedOut(c) =>
              \A json \in RouteJsons, r \in Codes :
                  (~json.null /\ proxy_submit_routing_decision(c, json, r))
                      => r = PROXY_ERR_NOT_FOUND

C8_SubmitNotFoundIffNoSlot ==
    [][\A id \in ConnIds, json \in RouteJsons, r \in Codes :
          (~json.null /\ proxy_submit_routing_decision(id, json, r)) =>
              IF id \in PENDING_ROUTES
                THEN /\ r = PROXY_OK
                     /\ id \notin PENDING_ROUTES'
                     /\ routeRx'[id] = [st |-> "value", val |-> ParseRouteDecision(json)]
                ELSE r = PROXY_ERR_NOT_FOUND]_vars

\* C9: every route request the engine has issued to the router is in
\* ROUTE_REQUEST_QUEUE or has been returned by proxy_poll_route_request.
InSeq(q, x) == \E i \in 1..Len(q) : q[i] = x

C9_RequestsAreQueued ==
    \A c \in ConnIds :
        c \in routerCalls =>
            InSeq(ROUTE_REQUEST_QUEUE, c) \/ InSeq(polled, c)

\* C10: a route decision that carries a disconnect message makes the engine
\* send that message to the client and run cleanup_conn; the backend is never
\* dialed and nothing is written outbound, whatever else the decision carries.
Rejected(c) == local[c].result = "reject"

C10_RejectPath ==
    \A c \in ConnIds :
        Rejected(c) =>
            /\ pc[c] \in {"write_disconnect", "done", "aborted"} \cup CleanupPcs
            /\ pc[c] = "write_disconnect" => local[c].msg # None
            /\ pc[c] \in CleanupPcs => client[c].disconnect \in {None, local[c].msg}
            /\ ~backend[c].dialed
            /\ backend[c].written = <<>>
            /\ pc[c] = "done" => c \notin CONN_METRICS /\ c \notin RATE_LIMITERS

C10_RejectStep ==
    \A c \in ConnIds :
        /\ (route_decision(c) /\ routeRx[c].val.disconnect # None) =>
              /\ Rejected(c)'
              /\ local'[c].msg = routeRx[c].val.disconnect
              /\ pc'[c] = "write_disconnect"
        /\ (Rejected(c) /\ write_disconnect(c)) =>
              /\ pc'[c] = "cleanup1"
              /\ client'[c].disconnect = local[c].msg \/ client'[c] = client[c]
        /\ (Rejected(c) /\ cleanup_conn_manager(c)) => c \notin connections'

C10_DisconnectOverrides == []C10_RejectPath /\ [][C10_RejectStep]_vars

C10_Witness ==
    \E c \in ConnIds :
        /\ Rejected(c)
        /\ pc[c] = "cleanup4"
        /\ local[c].msg = "Banned."
        /\ client[c].disconnect = "Banned."
        /\ client[c].shutdown
        /\ ~backend[c].dialed

\* C11: for every disconnect message m the frame written is the packet length,
\* packet id 0 and a string whose content is the JSON chat component
\* {"text": m}; after the frame the write direction is shut down.
QuoteJson(m) ==
    LET escaped == {i \in 1..Len(m) : m[i] \in {34, 92}}
        at(i) == i + Cardinality({k \in escaped : k < i})
        char(j) == CHOOSE i \in 1..Len(m) :
                     j = at(i) \/ (i \in escaped /\ j = at(i) + 1)
    IN  <<34>>
          \o [j \in 1..(Len(m) + Cardinality(escaped)) |->
                IF char(j) \in escaped /\ j = at(char(j)) THEN 92 ELSE m[char(j)]]
          \o <<34>>
\* {"text":<m quoted>}
ChatComponent(m) == <<123, 34, 116, 101, 120, 116, 34, 58>> \o QuoteJson(m) \o <<125>>

C11_DisconnectIsChatComponent ==
    (calc.op = "write_disconnect" /\ calc.ok) =>
       LET len == read_varint(calc.written)
           id == read_varint(len.rest)
           reason == read_string(id.rest)
       IN  /\ len.ok /\ len.value = Len(len.rest)
           /\ id.ok /\ id.value = 0
           /\ reason.ok /\ reason.rest = <<>>
           /\ reason.value = ChatComponent(calc.msg)
           /\ calc.shutdown

\* C12: on the login path with a routed decision the backend receives, in
\* this order, the PROXY header (only when the decision asks for version 1 or
\* 2), the handshake packet and the login-start packet, and the forwarding
\* loop runs only after them; nothing is written before the dial has
\* succeeded; a failed write of one of the three ends in cleanup_conn without
\* the forwarding loop.
Replayed == <<"handshake", "login_start">>
WithHeader == <<"proxy_header">> \o Replayed
Prefixes(w) == {SubSeq(w, 1, n) : n \in 0..Len(w)}
NotDialedPcs == {"handshake", "login_start", "route_lock", "route_request",
                 "route_wait", "route_timeout", "write_disconnect", "dial"}
WritePcs == {"write_proxy_header", "write_handshake", "write_login"}

C12_OutboundOrder ==
    \A c \in ConnIds :
      /\ backend[c].written \in Prefixes(WithHeader) \cup Prefixes(Replayed)
      /\ pc[c] \in NotDialedPcs => backend[c].written = <<>>
      /\ pc[c] = "forward" => backend[c].written \in {WithHeader, Replayed}

C12_OutboundStep ==
    \A c \in ConnIds :
      pc'[c] # pc[c] =>
        /\ (pc[c] = "dial" /\ pc'[c] = "write_proxy_header")
             => local[c].route.proxy_protocol \in {1, 2}
        /\ (pc[c] = "dial" /\ pc'[c] = "write_handshake")
             => local[c].route.proxy_protocol \notin {1, 2}
        /\ pc'[c] = "write_proxy_header" => pc[c] = "dial"
        /\ pc'[c] = "forward"
             => /\ pc[c] = "write_login"
                /\ backend'[c].written = Append(backend[c].written, "login_start")
        /\ pc[c] \in WritePcs
             => \/ pc'[c] \in {"cleanup1", "aborted"}
                \/ /\ pc[c] = "write_proxy_header"
                   /\ backend'[c].written = <<"proxy_header">>
                \/ /\ pc[c] = "write_handshake"
                   /\ backend'[c].written = Append(backend[c].written, "handshake")
                \/ /\ pc[c] = "write_login"
                   /\ backend'[c].written = Append(backend[c].written, "login_start")
        /\ pc[c] \in WritePcs \/ backend'[c].written = backend[c].written
                              \/ backend'[c].written = <<>>

C12_BackendOrder == []C12_OutboundOrder /\ [][C12_OutboundStep]_vars

C12_Witness ==
    \E c \in ConnIds :
      /\ backend[c].dialed
      /\ backend[c].written = WithHeader
      /\ pc[c] = "forward"

\* C13: the handshake packet replayed to the backend decodes to the client's
\* protocol version, port and next state, and to the host of rewriteHost when
\* the decision has one, else to the client's host; the record parsed from the
\* client is the same after the rewrite.
Rewritten(hs, rewrite_host) ==
    IF rewrite_host.some THEN [hs EXCEPT !.host = rewrite_host.v] ELSE hs

C13_ReplayedHandshake ==
    calc.op = "replay_handshake" =>
       LET packet == calc.handshake_packet
           len == read_varint(packet.bytes)
           decoded == protocol_parse_handshake(packet.bytes)
       IN  /\ packet.returns
           /\ len.ok /\ len.value = Len(len.rest)
           /\ decoded.ok /\ decoded.rest = <<>>
           /\ decoded.value = Rewritten(calc.hs, calc.rewrite_host)
           /\ calc.hs \in ClientHandshakes

\* C19: for every v in [0, 2^31) and for both writers, the writer returns the
\* fewest bytes that hold v (1 to 5), and read_varint over those bytes, with
\* whatever follows them in the stream, yields v and leaves exactly what
\* follows.
MinimalLength(v) ==
    IF v < 2^7 THEN 1
    ELSE IF v < 2^14 THEN 2
    ELSE IF v < 2^21 THEN 3
    ELSE IF v < 2^28 THEN 4
    ELSE 5

C19_VarintRoundTrip ==
    (calc.op = "varint" /\ calc.value >= 0) =>
       /\ calc.written.returns
       /\ Len(calc.written.bytes) = MinimalLength(calc.value)
       /\ \A i \in 1..Len(calc.written.bytes) : calc.written.bytes[i] \in 0..255
       /\ calc.read.ok
       /\ calc.read.value = calc.value
       /\ calc.read.rest = calc.tail

C19_Witness ==
    /\ calc.op = "varint"
    /\ calc.writer = "connection"
    /\ calc.value = (2^30 - 1) + 2^30
    /\ Len(calc.written.bytes) = 5
    /\ calc.tail = <<255, 1>>
    /\ calc.read.value = calc.value

\* the most recent set() on the key of the last get(), if lastSet has one
LastSetOf(key) == {r \in lastSet : r.key = key}
Elapsed(r) == now >= r.at + r.cache_config.ttl

\* C15: get returns an entry only while now < expires_at.  A returned entry
\* is the one stored under the key and its expiry is strictly after now; when
\* the TTL of the most recent set on the key was 0 or has elapsed, get returns
\* none; and whenever get returns none, nothing is left under the key (the
\* expired entry was removed).
C15_GetOnlyUnexpired ==
    got.op = "get" =>
        /\ got.found =>
             /\ now < got.entry.expires_at
             /\ [key |-> got.key, entry |-> got.entry] \in cache
        /\ \A r \in LastSetOf(got.key) : Elapsed(r) => ~got.found
        /\ ~got.found => lookup(cache, got.key) = {}
\* a get() that found an expired entry has removed it and returned none, at
\* time 1 or later, and no set came in between
C15_Witness ==
    /\ got.op = "get"
    /\ got.removed
    /\ ~got.overtaken
    /\ ~got.found
    /\ now >= 1
    /\ lookup(cache, got.key) = {}

\* C16: a get issued before the expiry of the most recent set on its key (a
\* set with a positive TTL, made before the get started) returns the payload
\* of that set, and exactly one entry is stored under the key.
C16_GetReturnsLatestSet ==
    (got.op = "get" /\ ~got.overtaken) =>
        \A r \in LastSetOf(got.key) :
            (r.cache_config.ttl > 0 /\ ~Elapsed(r)) =>
                /\ got.found
                /\ got.entry.data = r.data
                /\ Cardinality(lookup(cache, got.key)) = 1

\* the arguments of the calls, each with the key generate_key gives it
CacheArgs ==
    { [ip |-> ip, host |-> c[1], granularity |-> c[2],
       key |-> generate_key(ip, c[1], c[2])] :
        ip \in CacheIps, c \in CacheCalls }
C17_KeysDistinct ==
    \A a \in CacheArgs, b \in CacheArgs :
        (/\ a.ip = b.ip
         /\ \/ a.granularity # b.granularity
            \/ /\ a.granularity = "IpHost"
               /\ a.host # None /\ b.host # None /\ a.host # b.host)
        => a.key # b.key
\* the keys under which a step changes the map
Changed == {e.key : e \in (cache \ cache') \cup (cache' \ cache)}
SetOrClear(a) ==
    \/ clear(a.ip, a.host, a.granularity)
    \/ \E d \in CacheInputs :
         set(a.ip, a.host, d[1], CacheConfig(a.granularity, d[2], d[3], d[4]))
C17_Step ==
    /\ \A k \in Changed :
         \/ \E a \in CacheArgs : a.key = k /\ SetOrClear(a)
         \/ get_remove /\ getting.key = k
         \/ cleanup_expired
    /\ got'.op = "get" =>
         /\ got'.found => [key |-> got'.key, entry |-> got'.entry] \in cache
         /\ \A a \in CacheArgs :
              a.key # got'.key => ~get(a.ip, a.host, a.granularity)
    /\ getting'.key \notin {None, getting.key} =>
         \A a \in CacheArgs :
           a.key # getting'.key => ~get(a.ip, a.host, a.granularity)
\* C17: the key of an IP entry differs from the key of every IP+Host entry
\* of the same ip, and two IP+Host keys of the same ip with different hosts
\* differ; what is stored under a key is changed only by a set or a clear
\* whose arguments give that key, by the removal of a get whose arguments
\* gave that key, or by cleanup_expired; and a get returns only the entry
\* under the key of its own arguments.
C17_Independent == []C17_KeysDistinct /\ [][C17_Step]_vars
\* the IP entry and two IP+Host entries of one ip are stored side by side
\* with different payloads, and a get at IP+Host granularity has just
\* returned its own
C17_Witness ==
    /\ got.op = "get"
    /\ got.found
    /\ got.key = "ip:1.2.3.4:host:x.example"
    /\ \E e \in lookup(cache, "ip:1.2.3.4") : e.entry.data # got.entry.data
    /\ \E e \in lookup(cache, "ip:1.2.3.4:host:default") :
           e.entry.data # got.entry.data

\* C18: an entry returned by get carries the reject flag and the reason of
\* the directive it was stored with: is_rejection is true exactly when the
\* directive's reject was true, and then reject_reason is the directive's
\* reason.
C18_RejectionCopied ==
    (got.op = "get" /\ got.found) =>
        /\ LastSetOf(got.key) # {}
        /\ \A r \in LastSetOf(got.key) :
             /\ got.entry.is_rejection = (r.cache_config.reject = "true")
             /\ r.cache_config.reject = "true" =>
                  got.entry.reject_reason = r.cache_config.reject_reason
\* a get has returned an entry that was stored with reject true and a reason
C18_Witness ==
    /\ got.op = "get"
    /\ got.found
    /\ got.entry.is_rejection
    /\ got.entry.reject_reason = "Banned."
\* a get has returned an entry that was stored with reject false
C18_WitnessNotRejected ==
    /\ got.op = "get"
    /\ got.found
    /\ ~got.entry.is_rejection
    /\ \E r \in LastSetOf(got.key) : r.cache_config.reject = "false"

\* a connection accepted after the last answer that carried a cache
\* directive, while that answer may still be served from the cache
ServedFromCache(c) == c >= cached.next /\ cached.next > 0 /\ now < cached.until
\* C14: after a MOTD decision with a cache directive {ipHost, ttl T} has
\* answered a status request, a later status request of the same peer and
\* host made before T has elapsed allocates no MOTD slot and issues no MOTD
\* request to the callback.
C14_AnsweredFromCache ==
    [][\A c \in ConnIds :
         ServedFromCache(c) =>
            /\ c \in PENDING_MOTDS' => c \in PENDING_MOTDS
            /\ ~(MOTD_CALLBACK /\ request_motd_info(c))]_vars

\* the connection came in Strict mode and its stream did not start with a
\* complete well-formed PROXY header
BadFirstBytes == FirstBytes \ DOMAIN Headers
StrictReject(c) ==
    local[c].options = "Strict" /\ local[c].first \in BadFirstBytes
C20_StrictPath ==
    \A c \in ConnIds :
        StrictReject(c) =>
            /\ pc[c] \in {"cleanup1", "cleanup2", "cleanup3", "cleanup4"}
            /\ client[c] = NoClient
            /\ c \notin PENDING_ROUTES \cup PENDING_MOTDS
            /\ routeRx[c] = NoRouteRx /\ motdRx[c] = NoMotdRx
            /\ FFI_ROUTER_LOCK # c /\ FFI_MOTD_LOCK # c
            /\ backend[c] = NoBackend
C20_StrictStep ==
    \A c \in ConnIds :
        /\ \A first \in BadFirstBytes :
             (local[c].options = "Strict" /\ proxy_protocol_in(c, first)) =>
                 /\ pc'[c] = "cleanup1"
                 /\ client' = client
                 /\ routerCalls' = routerCalls
        /\ StrictReject(c) =>
             /\ client'[c] = NoClient
             /\ pc'[c] # pc[c] =>
                  \/ /\ cleanup_conn_manager(c)
                     /\ c \notin connections'
                  \/ /\ cleanup_rate_limiters(c)
                     /\ c \notin RATE_LIMITERS'
                  \/ /\ cleanup_conn_metrics(c)
                     /\ c \notin CONN_METRICS'
                  \/ /\ cleanup_active_conn(c)
                     /\ ACTIVE_CONN' = ACTIVE_CONN - 1
                     /\ pc'[c] = "done"
IpHeaders == {"v1_tcp4", "v1_tcp6", "v2_ipv4", "v2_ipv6"}
\* the connection came in Optional or Strict mode and the PROXY stage found a
\* complete well-formed header of the given kinds at the start of its stream
HeaderSeen(c, kinds) ==
    /\ local[c].options \in {"Optional", "Strict"}
    /\ local[c].header_result = "ok"
    /\ local[c].first \in kinds
\* the address the claim expects the engine to take for the client
ExpectedAddr(c) ==
    IF HeaderSeen(c, IpHeaders)
      THEN CHOOSE a \in Headers[local[c].first].source : TRUE
      ELSE SocketPeerAddr
C21_Consumed ==
    \A c \in ConnIds :
        /\ (HeaderSeen(c, DOMAIN Headers)
              /\ pc[c] \notin {"cleanup1", "cleanup2", "cleanup3", "cleanup4"}) =>
               local[c].consumed = Headers[local[c].first].len
        /\ ~HeaderSeen(c, DOMAIN Headers) =>
               local[c].consumed = 0 /\ local[c].peer_addr_override = {}
        /\ (pc[c] = "handshake" /\ HeaderSeen(c, IpHeaders)) =>
               local[c].peer_addr_override = Headers[local[c].first].source
C21_Step ==
    \A c \in ConnIds :
        /\ pc[c] # "proxy_protocol" =>
             (pc'[c] \in {"aborted", "done"} \/
                 /\ local'[c].consumed = local[c].consumed
                 /\ local'[c].peer_addr_override = local[c].peer_addr_override)
        /\ told'[c] # told[c] => told'[c] = told[c] \cup {ExpectedAddr(c).ip}
        /\ backend'[c].source \notin {backend[c].source, {}} =>
             backend'[c].source = {ExpectedAddr(c)}
C21_WitnessNoOverride ==
    \E c \in ConnIds :
        /\ local[c].options = "Optional"
        /\ local[c].first = "omitted"
        /\ told[c] = {SocketPeerAddr.ip}
        /\ backend[c].source = {SocketPeerAddr}

\* what disconnect(id) and get_connection_metrics(id) can return now
DisconnectReturns(id) == {r \in Codes : ENABLED proxy_disconnect(id, r)}
GetConnectionMetricsReturns(id) ==
    {null \in BOOLEAN : ENABLED proxy_get_connection_metrics(id, null)}
\* abort() has reached the task of id: its future is dropped, or it is marked
\* to be dropped at its next await, or it had returned before
Aborted(id) ==
    \/ pc[id] \in AwaitPcs /\ pc'[id] = "aborted"
    \/ pc[id] \in RunPcs /\ id \in cancel'
    \/ pc[id] \in EndPcs /\ pc'[id] = pc[id]
C22_Returns ==
    \A id \in ConnIds :
        /\ ctl = "idle" =>
             DisconnectReturns(id) = IF id \in connections
                                       THEN {PROXY_OK} ELSE {PROXY_ERR_NOT_FOUND}
        /\ (ctl = "idle" /\ id \in kicked) =>
             /\ DisconnectReturns(id) = {PROXY_ERR_NOT_FOUND}
             /\ GetConnectionMetricsReturns(id) = {TRUE}
        /\ id \in kicked => InNone(id)
C22_Step ==
    \A id \in ConnIds, r \in Codes :
        proxy_disconnect(id, r) =>
            IF id \in connections
              THEN /\ r = PROXY_OK
                   /\ Aborted(id)
                   /\ connections' = connections \ {id}
                   /\ RATE_LIMITERS' = RATE_LIMITERS \ {id}
                   /\ CONN_METRICS' = CONN_METRICS \ {id}
              ELSE /\ r = PROXY_ERR_NOT_FOUND
                   /\ UNCHANGED <<regs, etask>>
\* C22: disconnect(id) returns PROXY_OK exactly when id is in the connection
\* table; it then aborts the task and removes id from the connection, limiter
\* and metrics tables, and from then on disconnect(id) returns not-found and
\* get_connection_metrics(id) returns null; when id is not in the table it
\* returns not-found and changes no table and no counter.
C22_Disconnect == []C22_Returns /\ [][C22_Step]_vars
\* a live connection was disconnected: its suspended task is dropped and the
\* id is in none of the tables
C22_Witness ==
    \E id \in kicked :
        /\ pc[id] = "aborted"
        /\ decrements[id] = 1
        /\ InNone(id)
        /\ connections # {}

\* the connections present in all three tables
Live == {c \in ConnIds : InAll(c)}
\* C23: kick_all() returns the number of connections it aborted, which is the
\* number of connections present in all three tables when it is called;
\* afterwards none of the three tables holds any of those ids and the
\* connection table is empty, so that a kick_all that follows with no accept in
\* between returns 0.
C23_KickAllCountsLive ==
    [][\A r \in 0..MaxConn :
         proxy_kick_all(r) =>
             /\ r = Cardinality(Live)
             /\ r = Cardinality({c \in ConnIds : pc[c] \notin EndPcs /\ Aborted(c)})
             /\ \A c \in Live : InNone(c)'
             /\ connections' = {}]_vars

Prefix(seq, of) == Len(seq) <= Len(of) /\ SubSeq(of, 1, Len(seq)) = seq
\* the stream the peer of a side has sent so far: its bytes are numbered
Stream(n) == [i \in 1..n |-> i]
\* C26: in the forwarding loop, for each direction, the bytes written to the
\* destination are at every moment a prefix of the bytes read from the source
\* (which are a prefix of what the source's peer sent): written in the order
\* read, none dropped, duplicated or reordered across the chunks of a read or
\* across reads.
C26_WrittenIsPrefixOfRead ==
    \A c \in ConnIds, d \in {"a", "b"} :
        /\ Prefix(sock[c][Other(d)].wr, sock[c][d].taken)
        /\ Prefix(sock[c][d].taken, Stream(sock[c][d].sent))
\* a read of more than one chunk: its second chunk has been written to the
\* backend, which now has the three bytes the client sent
C26_Witness ==
    \E c \in ConnIds :
        /\ pc[c] = "count"
        /\ copy[c].dir = "a"
        /\ copy[c].offset = ChunkSize
        /\ sock[c].b.wr = <<1, 2, 3>>
\* the same across two reads, from the backend to the client
C26_WitnessTwoReads ==
    \E c \in ConnIds :
        /\ pc[c] = "count"
        /\ copy[c].dir = "b"
        /\ copy[c].offset = 0
        /\ copy[c].buf = <<3>>
        /\ sock[c].a.wr = <<1, 2, 3>>

RECURSIVE SumOver(_, _)
SumOver(f, S) ==
    IF S = {} THEN 0
    ELSE LET c == CHOOSE x \in S : TRUE IN f[c] + SumOver(f, S \ {c})
\* the chunk of connection c in direction d that is written and not yet
\* counted by the per-connection counter (resp. by the global total)
Uncounted(c, d) ==
    IF pc[c] = "count" /\ copy[c].dir = d THEN chunk_size(c) ELSE 0
Untotalled(c, d) ==
    IF pc[c] = "total" /\ copy[c].dir = d THEN chunk_size(c) ELSE 0
C27_Counters ==
    /\ \A c \in ConnIds :
         /\ sock[c].b.acked = metrics[c].bytes_sent + Uncounted(c, "a")
         /\ sock[c].a.acked = metrics[c].bytes_recv + Uncounted(c, "b")
         /\ \A d \in {"a", "b"} :
              /\ sock[c][d].acked <= Len(sock[c][d].wr)
              /\ Len(sock[c][d].wr) < sock[c][d].acked + ChunkSize
    /\ TOTAL_BYTES_SENT + SumOver([c \in ConnIds |-> Untotalled(c, "a")], ConnIds)
         = SumOver([c \in ConnIds |-> metrics[c].bytes_sent], ConnIds)
    /\ TOTAL_BYTES_RECV + SumOver([c \in ConnIds |-> Untotalled(c, "b")], ConnIds)
         = SumOver([c \in ConnIds |-> metrics[c].bytes_recv], ConnIds)
C27_Step ==
    \A c \in ConnIds :
        /\ metrics'[c].bytes_sent >= metrics[c].bytes_sent
        /\ metrics'[c].bytes_recv >= metrics[c].bytes_recv
        /\ metrics'[c] # metrics[c] =>
             /\ pc[c] = "count"
             /\ metrics'[c].bytes_sent + metrics'[c].bytes_recv
                  = metrics[c].bytes_sent + metrics[c].bytes_recv + chunk_size(c)
\* C27: bytes_sent (resp. bytes_recv) of a connection is the number of bytes
\* of the chunks the forwarding loop has written client-to-backend (resp.
\* backend-to-client) with success, less the one chunk that is written and not
\* yet counted; the replayed handshake, login start and PROXY header are not
\* counted; a counter changes only after its chunk was written, by the chunk
\* size, and never decreases; the global totals are the sums of the
\* per-connection counters, less the chunks counted there and not yet here.
C27_BytesCounted == []C27_Counters /\ [][C27_Step]_vars
\* three bytes went from the client to the backend after the replayed
\* handshake and login start, and both counters show 3
C27_Witness ==
    \E c \in CONN_METRICS :
        /\ backend[c].written = <<"handshake", "login_start">>
        /\ sock[c].b.wr = <<1, 2, 3>>
        /\ metrics[c].bytes_sent = 3
        /\ TOTAL_BYTES_SENT = 3
        /\ metrics[c].bytes_recv = 1

\* what set_rate_limit(id, args) can return now
SetRateLimitReturns(id, args) ==
    {r \in Codes : ENABLED proxy_set_rate_limit(id, args, r)}
C24_Returns ==
    \A id \in ConnIds, args \in RateLimitArgs :
        ctl = "idle" =>
            SetRateLimitReturns(id, args) =
                IF id \in RATE_LIMITERS THEN {PROXY_OK} ELSE {PROXY_ERR_NOT_FOUND}
\* the step is one call of set_rate_limit: no other operation changes the
\* limiter table's values
SetRateLimitStep == limits' # limits
C24_Step ==
    SetRateLimitStep =>
        \E id \in RATE_LIMITERS, args \in RateLimitArgs :
            /\ proxy_set_rate_limit(id, args, PROXY_OK)
            /\ limits'[id].send = Quota(nonzero_or(args[1], U32Max),
                                        nonzero_or(args[2], nonzero_or(args[1], U32Max)))
            /\ limits'[id].recv = Quota(nonzero_or(args[3], U32Max),
                                        nonzero_or(args[4], nonzero_or(args[3], U32Max)))
            /\ \A other \in ConnIds \ {id} : limits'[other] = limits[other]
            /\ UNCHANGED <<metrics, TOTAL_BYTES_SENT, TOTAL_BYTES_RECV, regs, copy>>
\* C24: set_rate_limit(id, ..) returns not-found exactly when id has no
\* limiter entry, and then changes nothing; otherwise, in one step, both
\* limiters of id become the ones its four arguments describe, whatever they
\* were before (so a second call with the same arguments changes nothing),
\* and the byte counters, the tables and every other connection's limiters
\* are unchanged.
C24_SetRateLimit == []C24_Returns /\ [][C24_Step]_vars
\* the limits of connection 2 were set while connection 1, with its own
\* limits still as inserted, has forwarded bytes
C24_Witness ==
    /\ 2 \in RATE_LIMITERS
    /\ limits[2] = [send |-> Quota(1, 1), recv |-> Quota(3, 2)]
    /\ limits[1] = NoLimits
    /\ metrics[1].bytes_sent > 0

\* C25: in every snapshot proxy_get_metrics returns, total_bytes_sent is at
\* least the sum of bytes_sent over the connections listed in it, and
\* total_bytes_recv at least the sum of their bytes_recv.
C25_SnapshotConsistent ==
    snapshot.st = "returned" =>
        LET listed == {m.id : m \in snapshot.connections}
            of(id) == CHOOSE m \in snapshot.connections : m.id = id
        IN  /\ snapshot.total_bytes_sent >=
                 SumOver([id \in listed |-> of(id).bytes_sent], listed)
            /\ snapshot.total_bytes_recv >=
                 SumOver([id \in listed |-> of(id).bytes_recv], listed)

\* C28: in the forwarding loop, when the backend has bytes readable, then
\* bytes of the backend are eventually written to the client, unless the
\* backend closes or the loop ends (an error, or both sides closed); this also
\* when the client has bytes readable at every iteration of the loop.
C28_NoStarvation ==
    \A c \in ConnIds :
        (pc[c] = "select" /\ sock[c].b.rd # <<>> /\ sock[c].a.wr = <<>>)
            ~> (sock[c].a.wr # <<>> \/ sock[c].b.eof \/ pc[c] \notin CopyPcs)

\* C29: when request_route_info finds no router registered it removes the
\* connection's route slot and resolves it, in the same step, with a decision
\* whose disconnect is "No router configured"; the task takes that decision
\* without passing through the timeout, sends that message to the client,
\* never dials or writes to a backend, and runs cleanup_conn. When
\* request_motd_info finds no MOTD callback it removes the MOTD slot and
\* resolves it in the same step with the default MOTD, which is the status
\* the client is sent.
NoRouterDecision == [DefaultRouteDecision EXCEPT !.disconnect = MsgNoRouter]
NoCallbackMotd == MotdDecision(MotdNoCallback, None)
\* no callback has been called with this connection
Unasked(c) == told[c] = {}

C29_NoOraclePath ==
    \A c \in ConnIds :
        Unasked(c) =>
            /\ pc[c] = "route_wait" =>
                  /\ c \notin PENDING_ROUTES
                  /\ routeRx[c] = [st |-> "value", val |-> NoRouterDecision]
            /\ pc[c] # "route_timeout"
            /\ local[c].result \in {"none", "reject"}
            /\ Rejected(c) =>
                  /\ pc[c] \in {"write_disconnect", "done", "aborted"} \cup CleanupPcs
                  /\ pc[c] = "write_disconnect" => local[c].msg = MsgNoRouter
            /\ client[c].disconnect \in {None, MsgNoRouter}
            /\ ~backend[c].dialed
            /\ backend[c].written = <<>>
            /\ pc[c] = "motd_wait" =>
                  /\ c \notin PENDING_MOTDS
                  /\ motdRx[c] = [st |-> "value", val |-> NoCallbackMotd]
            /\ pc[c] # "motd_timeout"
            /\ pc[c] = "send_status" => local[c].motd = NoCallbackMotd
            /\ client[c].status \in {None, MotdNoCallback}
            /\ pc[c] = "done" => c \notin CONN_METRICS /\ c \notin RATE_LIMITERS

C29_NoOracleStep ==
    \A c \in ConnIds :
        /\ (pc[c] = "route_request" /\ ~ROUTER_CALLBACK /\ pc'[c] = "route_wait") =>
              /\ Unasked(c)'
              /\ c \notin PENDING_ROUTES'
              /\ routeRx'[c] = [st |-> "value", val |-> NoRouterDecision]
        /\ (Unasked(c) /\ pc[c] = "route_wait" /\ pc'[c] \notin {"route_wait", "aborted"}) =>
              /\ Rejected(c)'
              /\ pc'[c] = "write_disconnect"
        /\ (Unasked(c) /\ Rejected(c) /\ write_disconnect(c)) =>
              /\ pc'[c] = "cleanup1"
              /\ client'[c].disconnect = MsgNoRouter \/ client'[c] = client[c]
        /\ (Unasked(c) /\ cleanup_conn_manager(c)) => c \notin connections'
        /\ (pc[c] = "motd_request" /\ ~MOTD_CALLBACK /\ pc'[c] = "motd_wait") =>
              /\ Unasked(c)'
              /\ c \notin PENDING_MOTDS'
              /\ motdRx'[c] = [st |-> "value", val |-> NoCallbackMotd]
        /\ (Unasked(c) /\ pc[c] = "motd_wait" /\ pc'[c] \notin {"motd_wait", "aborted"}) =>
              pc'[c] = "send_status"
        /\ (Unasked(c) /\ send_status(c)) =>
              client'[c].status = MotdNoCallback \/ client'[c] = client[c]

C29_NoOracle == []C29_NoOraclePath /\ [][C29_NoOracleStep]_vars

C29_Witness ==
    \E c \in ConnIds :
        /\ Unasked(c)
        /\ Rejected(c)
        /\ pc[c] = "cleanup4"
        /\ local[c].msg = MsgNoRouter
        /\ client[c].disconnect = MsgNoRouter
        /\ client[c].shutdown
        /\ ~backend[c].dialed

C29_WitnessMotd ==
    \E c \in ConnIds :
        /\ Unasked(c)
        /\ pc[c] = "cleanup4"
        /\ client[c].status = MotdNoCallback

\* C30: after a failed backend dial the engine sends the client the login
\* disconnect "Could not connect to the destination server." and goes to
\* cleanup_conn; nothing is ever written to the backend, the forwarding loop
\* is not entered, the connection's metrics and limiter entries are gone when
\* the task has returned, and ACTIVE_CONN has been decremented exactly once
\* for the connection (never more than once).
DialFailed(c) == local[c].result = "route" /\ local[c].msg = MsgDialFailed

C30_DialFailurePath ==
    \A c \in ConnIds :
        DialFailed(c) =>
            /\ pc[c] \in {"write_disconnect"} \cup CleanupPcs
            /\ pc[c] = "write_disconnect" => client[c].disconnect = None
            /\ pc[c] \in CleanupPcs => client[c].disconnect \in {None, MsgDialFailed}
            /\ backend[c].dialed
            /\ backend[c].written = <<>>
            /\ decrements[c] <= 1

\* the task's locals are dropped when it returns, so what holds at the
\* return is stated on the last step of cleanup_conn
C30_DialFailureStep ==
    \A c \in ConnIds :
        /\ (pc[c] = "dial" /\ pc'[c] = "write_disconnect") => DialFailed(c)'
        /\ (DialFailed(c) /\ write_disconnect(c)) =>
              /\ pc'[c] = "cleanup1"
              /\ client'[c].disconnect = MsgDialFailed \/ client'[c] = client[c]
        /\ (DialFailed(c) /\ cleanup_conn_manager(c)) => c \notin connections'
        /\ (DialFailed(c) /\ pc[c] = "cleanup4" /\ pc'[c] = "done") =>
              /\ c \notin CONN_METRICS'
              /\ c \notin RATE_LIMITERS'
              /\ decrements'[c] = 1

C30_DialFailure == []C30_DialFailurePath /\ [][C30_DialFailureStep]_vars

\* C31: whatever route decision is submitted, the engine task never panics:
\* from the dial it goes on with a backend dialed through SOCKS5 exactly when
\* the decision's proxy is a socks5 URL and dialed directly otherwise, and a
\* task that has ended has run cleanup_conn or was aborted by the embedder.
C31_TaskEndsCleanly == \A c \in ConnIds : pc[c] # "panicked"

C31_DialStep ==
    \A c \in ConnIds :
        (pc[c] = "dial" /\ pc'[c] \notin {"dial", "aborted"}) =>
            /\ pc'[c] \in {"write_disconnect", "write_proxy_header", "write_handshake"}
            /\ backend'[c].dialed
            /\ backend'[c].via = IF local[c].route.proxy
                                      /\ local[c].route.proxy_url = "socks5"
                                   THEN "socks5" ELSE "direct"

C31_DialNeverPanics == []C31_TaskEndsCleanly /\ [][C31_DialStep]_vars

\* C32: a handshake with next_state 1 takes the status path, one with
\* next_state 2 the login path; a handshake with any other next_state, a
\* handshake or login start that fails to parse (wrong packet id, string
\* length above the limit, a VarInt of more than five bytes, invalid UTF-8,
\* end of stream) takes the task to cleanup_conn, which runs once, statement
\* by statement, to the task's return; such a connection is never written a
\* byte, no route or MOTD request is made for it and no backend is dialed.
Abandoned(c) ==
    \/ local[c].hs.st = "err"
    \/ local[c].hs.st = "ok" /\ local[c].hs.next_state \notin {1, 2}
    \/ local[c].username = "err"

NextCleanupPc(p) ==
    CASE p = "cleanup1" -> "cleanup2"
      [] p = "cleanup2" -> "cleanup3"
      [] p = "cleanup3" -> "cleanup4"
      [] OTHER -> "done"

C32_AbandonedSilently ==
    \A c \in ConnIds :
        /\ pc[c] # "panicked"
        /\ Abandoned(c) =>
              /\ pc[c] \in CleanupPcs
              /\ client[c] = NoClient
              /\ told[c] = {}
              /\ c \notin routerCalls
              /\ c \notin PENDING_ROUTES \cup PENDING_MOTDS
              /\ ~backend[c].dialed

C32_FramingStep ==
    \A c \in ConnIds :
        /\ \A stream \in FirstPackets :
              read_handshake(c, stream) =>
                  pc'[c] = IF stream \in StatusHandshakes THEN "status_request"
                           ELSE IF stream \in LoginHandshakes THEN "login_start"
                           ELSE "cleanup1"
        /\ \A stream \in LoginStarts :
              read_login_start(c, stream) =>
                  pc'[c] = IF stream \in GoodLoginStarts THEN "route_lock"
                           ELSE "cleanup1"
        /\ (Abandoned(c) /\ pc'[c] # pc[c]) => pc'[c] = NextCleanupPc(pc[c])
        /\ (Abandoned(c) /\ cleanup_conn_manager(c)) => c \notin connections'
        /\ (Abandoned(c) /\ pc'[c] = "done") =>
              /\ c \notin CONN_METRICS'
              /\ c \notin RATE_LIMITERS'
        /\ pc[c] = "done" => pc'[c] = "done"

C32_FramingErrors == []C32_AbandonedSilently /\ [][C32_FramingStep]_vars

\* C33: in the forwarding loop a side is marked closed only when its read
\* returned 0 bytes (end of stream, nothing left to read); when one side is
\* closed and the other is not, the other side's write direction has been
\* shut down once (or is being shut down), and never more than once; the
\* loop is left only by the break with both sides closed or by an I/O error
\* of a read, a shutdown or a write; while one side is closed the bytes
\* readable on the other side are read and forwarded; and once both peers
\* have closed the loop ends.
LoopPcs == {"select", "shutdown", "limit", "write", "count", "total"}

C33_HalfClosed ==
    \A c \in ConnIds :
        pc[c] \in LoopPcs =>
            \A d \in {"a", "b"} :
                LET o == Other(d)
                IN  /\ Closed(c, d) => sock[c][d].eof /\ sock[c][d].rd = <<>>
                    /\ sock[c][o].shutdowns <= 1
                    /\ sock[c][o].shutdowns = 1 => Closed(c, d)
                    /\ (Closed(c, d) /\ ~Closed(c, o)) =>
                          IF pc[c] = "shutdown"
                            THEN copy[c].dir = d /\ sock[c][o].shutdowns = 0
                            ELSE sock[c][o].shutdowns = 1
                    /\ (Closed(c, d) /\ Closed(c, o)) =>
                          /\ pc[c] = "select"
                          /\ sock[c].a.shutdowns + sock[c].b.shutdowns = 1
                    /\ pc[c] = "shutdown" => Closed(c, copy[c].dir)

C33_LoopStep ==
    \A c \in ConnIds :
        /\ (pc[c] \in LoopPcs /\ pc'[c] \notin LoopPcs) =>
              /\ pc'[c] = "cleanup1"
              /\ \/ pc[c] = "select" /\ copy[c].a_closed /\ copy[c].b_closed
                 \/ pc[c] = "select" /\ (Ready(c, "a") \/ Ready(c, "b"))
                 \/ pc[c] = "shutdown"
                 \/ pc[c] = "write" /\ sock'[c][Other(copy[c].dir)].acked
                                         = sock[c][Other(copy[c].dir)].acked
        /\ \A d \in {"a", "b"} :
              (pc[c] \in LoopPcs /\ pc'[c] \in LoopPcs) =>
                  /\ Closed(c, d) => Closed(c, d)'
                  /\ (~Closed(c, d) /\ Closed(c, d)') =>
                        /\ pc[c] = "select"
                        /\ sock[c][d].eof /\ sock[c][d].rd = <<>>
                        /\ pc'[c] = IF Closed(c, Other(d)) THEN "select" ELSE "shutdown"

C33_KeepsForwarding ==
    \A c \in 1..MaxLogins : \A d \in {"a", "b"} :
        (pc[c] \in LoopPcs /\ Closed(c, d) /\ sock[c][Other(d)].rd # <<>>)
            ~> (pc[c] \notin LoopPcs \/ sock[c][Other(d)].rd = <<>>)

C33_Terminates ==
    \A c \in 1..MaxLogins :
        (pc[c] \in LoopPcs /\ sock[c].a.eof /\ sock[c].b.eof)
            ~> (pc[c] \notin LoopPcs)

C33_HalfClose ==
    /\ []C33_HalfClosed
    /\ [][C33_LoopStep]_vars
    /\ C33_KeepsForwarding
    /\ C33_Terminates

\* one side closed and shut down, the other still forwarding: the client has
\* closed, the backend's write side is shut down, and a byte of the backend
\* reaches the client afterwards
C33_Witness ==
    \E c \in ConnIds :
        /\ pc[c] = "count"
        /\ copy[c].a_closed /\ ~copy[c].b_closed
        /\ sock[c].b.shutdowns = 1
        /\ copy[c].dir = "b"
        /\ sock[c].a.wr # <<>>

C33_WitnessBothClosed ==
    \E c \in ConnIds :
        /\ pc[c] = "cleanup1"
        /\ copy[c].a_closed /\ copy[c].b_closed
        /\ sock[c].a.shutdowns + sock[c].b.shutdowns = 1

\* C34: whatever limits set_rate_limit has installed from arguments inside
\* the u32 range, a burst below the chunk size included, the engine task
\* never panics, the wait for a chunk's tokens ends with the chunk going on
\* to write_all, the chunk released is no larger than the burst of the
\* limiter waited on, and a task waiting for tokens eventually gets to write.
C34_NoPanic == \A c \in ConnIds : pc[c] # "panicked"

C34_LimitStep ==
    \A c \in ConnIds :
        (pc[c] = "limit" /\ pc'[c] # "limit") =>
            /\ pc'[c] = "write"
            /\ chunk_size(c) <= limiter(c).burst

C34_Eventually ==
    \A c \in 1..MaxLogins : (pc[c] = "limit") ~> (pc[c] = "write")

C34_WaitCompletes ==
    /\ []C34_NoPanic
    /\ [][C34_LimitStep]_vars
    /\ C34_Eventually

\* C35: once set_rate_limit has replaced the limiters of a connection that
\* is in its forwarding loop, every later wait for tokens is made on the
\* installed limiter of the chunk's direction.
installed(c) == IF copy[c].dir = "a" THEN limits[c].send ELSE limits[c].recv

C35_AcquireStep ==
    \A c \in ConnIds :
        (pc[c] = "limit" /\ pc'[c] # "limit" /\ c \in RATE_LIMITERS) =>
            limiter(c) = installed(c)

C35_NewLimitersUsed == [][C35_AcquireStep]_vars

\* C36: on the status path, when the wait for the MOTD decision has timed
\* out, the engine removes the MOTD slot and goes on to write the disconnect
\* "Internal routing error."; no status response is sent for the failed
\* wait.
C36_NoFallbackStatus ==
    \A c \in ConnIds : client[c].status # MotdConnectionError

C36_TimeoutStep ==
    \A c \in ConnIds :
        (pc[c] = "motd_timeout" /\ pc'[c] # pc[c]) =>
            /\ c \notin PENDING_MOTDS'
            /\ pc'[c] = "write_disconnect"
            /\ local'[c].msg = MsgInternalRoutingError

C36_MotdTimeout == []C36_NoFallbackStatus /\ [][C36_TimeoutStep]_vars

\* C37: a submitted decision whose text does not parse is not rejected.
\* While a slot is pending for the id and the task of the id holds the
\* receiving end, the call returns PROXY_OK (and nothing else), removes the
\* slot and delivers the default decision with disconnect "Invalid JSON from
\* router" (resp. "Invalid JSON from MOTD callback"), which the task then
\* takes to write_disconnect. PROXY_ERR_BAD_PARAM is returned for a null
\* pointer and for nothing else, and that call changes nothing: a pending
\* slot stays pending.
RouteSubmitReturns(id, json) ==
    {r \in Codes : ENABLED proxy_submit_routing_decision(id, json, r)}
MotdSubmitReturns(id, json) ==
    {r \in Codes : ENABLED proxy_submit_motd_decision(id, json, r)}
RouteReceiver(id) == id \in PENDING_ROUTES /\ routeRx[id].st = "open"
MotdReceiver(id) == id \in PENDING_MOTDS /\ motdRx[id].st = "open"

C37_Returns ==
    \A id \in ConnIds :
        ctl = "idle" =>
            /\ RouteReceiver(id) => RouteSubmitReturns(id, BadJson) = {PROXY_OK}
            /\ MotdReceiver(id) => MotdSubmitReturns(id, BadMotdJson) = {PROXY_OK}
            /\ \A json \in RouteJsons :
                  RouteSubmitReturns(id, json) =
                      {PROXY_ERR_BAD_PARAM} <=> json.null
            /\ \A json \in RouteJsons :
                  PROXY_ERR_BAD_PARAM \in RouteSubmitReturns(id, json) => json.null
            /\ \A json \in MotdJsons :
                  MotdSubmitReturns(id, json) =
                      {PROXY_ERR_BAD_PARAM} <=> json.null
            /\ \A json \in MotdJsons :
                  PROXY_ERR_BAD_PARAM \in MotdSubmitReturns(id, json) => json.null
            /\ ~ENABLED (/\ proxy_submit_routing_decision(id, NullJson,
                                                          PROXY_ERR_BAD_PARAM)
                         /\ vars' # vars)
            /\ ~ENABLED (/\ proxy_submit_motd_decision(id, NullMotdJson,
                                                       PROXY_ERR_BAD_PARAM)
                         /\ vars' # vars)

C37_Step ==
    \A id \in ConnIds :
        /\ \A r \in Codes :
              (RouteReceiver(id)
                 /\ proxy_submit_routing_decision(id, BadJson, r)) =>
                  /\ r = PROXY_OK
                  /\ id \notin PENDING_ROUTES'
                  /\ routeRx'[id].st = "value"
                  /\ routeRx'[id].val =
                        [DefaultRouteDecision EXCEPT !.disconnect = MsgInvalidJson]
        /\ \A r \in Codes :
              (MotdReceiver(id)
                 /\ proxy_submit_motd_decision(id, BadMotdJson, r)) =>
                  /\ r = PROXY_OK
                  /\ id \notin PENDING_MOTDS'
                  /\ motdRx'[id].st = "value"
                  /\ motdRx'[id].val =
                        [DefaultMotdDecision EXCEPT !.disconnect = MsgInvalidMotdJson]
        /\ (route_decision(id) /\ routeRx[id].val.disconnect = MsgInvalidJson) =>
              /\ pc'[id] = "write_disconnect"
              /\ local'[id].msg = MsgInvalidJson
        /\ (motd_decision(id) /\ motdRx[id].val.disconnect = MsgInvalidMotdJson) =>
              /\ pc'[id] = "write_disconnect"
              /\ local'[id].msg = MsgInvalidMotdJson

C37_InvalidJsonDelivered == []C37_Returns /\ [][C37_Step]_vars

\* the client of a login was sent "Invalid JSON from router"
C37_Witness ==
    \E c \in ConnIds :
        /\ client[c].disconnect = MsgInvalidJson
        /\ c \notin PENDING_ROUTES
        /\ pc[c] \in CleanupPcs

\* the client of a status request was sent "Invalid JSON from MOTD callback"
C37_WitnessMotd ==
    \E c \in ConnIds :
        /\ client[c].disconnect = MsgInvalidMotdJson
        /\ c \notin PENDING_MOTDS
        /\ pc[c] \in CleanupPcs

\* C38: for every i32 the parser can deliver, negative values of a five-byte
\* VarInt included, connection.rs write_varint returns, with at most 5
\* bytes that read_varint decodes to the same value; and
\* create_handshake_packet returns for every handshake record of a login.
C38_WriterTerminates ==
    /\ (calc.op = "varint" /\ calc.writer = "connection") =>
          /\ calc.written.returns
          /\ Len(calc.written.bytes) <= 5
          /\ calc.read.ok
          /\ calc.read.value = calc.value
          /\ calc.read.rest = calc.tail
    /\ calc.op = "replay_handshake" => calc.handshake_packet.returns

\* C39: the remove of a get that found an expired entry never takes out an
\* unexpired entry: an entry that a set stored under the key after the get
\* released its reference is still in the map after the remove, so that
\* after such a get the payload of that set is stored under the key until
\* it expires.
C39_FreshKept ==
    (got.op = "get" /\ got.removed /\ got.overtaken) =>
        \A r \in LastSetOf(got.key) :
            ~Elapsed(r) =>
                \E e \in lookup(cache, got.key) :
                    e.entry.data = r.data /\ unexpired(e.entry, now)

C39_RemoveStep ==
    get_remove =>
        \A e \in lookup(cache, getting.key) :
            unexpired(e.entry, now) => e \in cache'

C39_GetKeepsFreshEntry == []C39_FreshKept /\ [][C39_RemoveStep]_vars

\* C40: a set_rate_limit that returns PROXY_OK installs, for each direction,
\* a limiter whose average is the requested one when that is in 1..u32::MAX,
\* u32::MAX when 0 was requested, and no less than u32::MAX when more than
\* u32::MAX was requested; and whose burst is the requested one when that
\* is in 1..u32::MAX, the installed average when 0 was requested, and no
\* less than u32::MAX when more than u32::MAX was requested.
AverageAsRequested(x, q) ==
    IF x = 0 THEN q.avg = U32Max
    ELSE IF x <= U32Max THEN q.avg = x
    ELSE q.avg >= U32Max
BurstAsRequested(x, q) ==
    IF x = 0 THEN q.burst = q.avg
    ELSE IF x <= U32Max THEN q.burst = x
    ELSE q.burst >= U32Max

C40_InstallStep ==
    \A id \in ConnIds, args \in RateLimitArgs :
        proxy_set_rate_limit(id, args, PROXY_OK) =>
            /\ AverageAsRequested(args[1], limits'[id].send)
            /\ BurstAsRequested(args[2], limits'[id].send)
            /\ AverageAsRequested(args[3], limits'[id].recv)
            /\ BurstAsRequested(args[4], limits'[id].recv)

C40_InstalledAsRequested == [][C40_InstallStep]_vars
====
